---- MODULE Spec2Model ----
(***************************************************************************)
(* Rain rollover engine, daily extremes tracker and daily summary store of *)
(* server/ecowitt/backend_v2/src/state_v2.cpp.                             *)
(*                                                                         *)
(* Numbers.  Times are seconds (time_t).  Rain readings (double, mm) are   *)
(* integers in units of 0.0001 mm, the resolution of the delta threshold   *)
(* of the ingest.  Rain amounts in inches (double) are integers in units   *)
(* of 1/1270000 inch, in which mm / 25.4 is exact.  Rounding of doubles is *)
(* not modelled.  Temperatures, humidities and wind speeds are integers.   *)
(* An optional value (a JSON field that may be missing, a nullable column) *)
(* is <<>> when absent and <<v>> when present.                             *)
(***************************************************************************)
EXTENDS Integers, Sequences, FiniteSets, TLC

VARIABLES
    g_state,    \* WeatherStateV2 g_state
    g_db,       \* the daily_weather table behind sqlite3 *g_db
    g_file,     \* the snapshot file written by save_state: <<>> or <<json>>
    clock,      \* the wall clock, as last read by std::time(nullptr)
    g_ws90,     \* g_ws90_last_poll, g_ws90_http_status, g_ws90_http_ok, g_rtlsdr_ok,
                \* g_ws90_error_code, g_ws90_error_msg
    g_lock,     \* std::mutex g_lock: "" when free, else the thread that holds it
    pc,         \* where the poller thread and the HTTP thread are; pc.cursor is the
                \* day_ts of the last row a running SELECT has returned
    req,        \* the HTTP request being served (the last one served)
    resp,       \* the reply to it
    pre,        \* observation: g_state and g_db as they were before the last ingest
    inp,        \* observation: the time and the sample of the last ingest
    poll,       \* observation: what the last poll fetched
    hist,       \* observation: what the run has done so far
    ws90_api,   \* the bridge process: buf, latest_json, have_json, last_update, filter_id
    fifo        \* /tmp/ws90.fifo: the text rtl_433 has written and the bridge has not
                \* read yet; observation: the lines written and the length read

vars == <<g_state, g_db, g_file, clock, g_ws90, g_lock, pc, req, resp, pre, inp, poll, hist,
          ws90_api, fifo>>

-----------------------------------------------------------------------------
(* Config constants *)

MM == 10000                       \* units of a rain reading per millimetre
HOURLY_WINDOW_SEC == 3600
EVENT_GAP_MIN == 30
MIN_COVERAGE_SEC == 12 * 3600
DAY_SEC == 86400
\* Inches are counted in units of 1/1270000 in (0.0001 mm is 5 units).
HISTORICAL_TOTAL_IN == 79717900      \* 62.77 in
HISTORICAL_YEARLY_IN == 79717900     \* 62.77 in
HISTORICAL_MONTHLY_IN == 5422900     \* 4.27 in
HISTORICAL_WEEKLY_IN == 2489200      \* 1.96 in

-----------------------------------------------------------------------------
(* Local time.  localtime_r and mktime of the zone of the process (TZ): the  *)
(* clocks are one hour ahead from the second Sunday of March to the first   *)
(* Sunday of November.  t = 0 is local midnight of 1 January 2025, and the  *)
(* years of the model (2025..2027) have 365 days.                           *)

DaysBefore == <<0, 31, 59, 90, 120, 151, 181, 212, 243, 273, 304, 334>>

\* The broken-down time w seconds after 00:00:00 of 1 January 2025.
wall_clock(w, isdst) ==
    LET n   == w \div DAY_SEC
        doy == n % 365
        mon == CHOOSE k \in 1..12 :
                   /\ DaysBefore[k] <= doy
                   /\ (k = 12 \/ doy < DaysBefore[k + 1])
    IN  [tm_year |-> 125 + (n \div 365),
         tm_mon  |-> mon - 1,
         tm_mday |-> doy - DaysBefore[mon] + 1,
         tm_hour |-> (w % DAY_SEC) \div 3600,
         tm_min  |-> (w % 3600) \div 60,
         tm_sec  |-> w % 60,
         tm_isdst |-> isdst]

\* The seconds from 00:00:00 of 1 January 2025 to the broken-down time tm.
seconds_of(tm) ==
    (((tm.tm_year - 125) * 365 + DaysBefore[tm.tm_mon + 1] + tm.tm_mday - 1) * DAY_SEC)
        + tm.tm_hour * 3600 + tm.tm_min * 60 + tm.tm_sec

\* Summer time: from 02:00 of 9 March to 02:00 (summer time) of 2 November 2025,
\* and from 02:00 of 8 March to 02:00 (summer time) of 1 November 2026.
SummerTime ==
    {<<(DaysBefore[3] + 8) * DAY_SEC + 7200, (DaysBefore[11] + 1) * DAY_SEC + 3600>>,
     <<(365 + DaysBefore[3] + 7) * DAY_SEC + 7200, (365 + DaysBefore[11]) * DAY_SEC + 3600>>}

is_dst(t) == \E s \in SummerTime : s[1] <= t /\ t < s[2]

localtime_r(t) ==
    IF is_dst(t) THEN wall_clock(t + 3600, 1) ELSE wall_clock(t, 0)

\* mktime takes tm_isdst as given: a positive value says that the broken-down
\* time is summer time, 0 that it is standard time.
mktime(tm) == seconds_of(tm) - (IF tm.tm_isdst > 0 THEN 3600 ELSE 0)

ymd_from_time(t) ==
    LET lt == localtime_r(t)
    IN  (lt.tm_year + 1900) * 10000 + (lt.tm_mon + 1) * 100 + lt.tm_mday

ym_from_time(t) ==
    LET lt == localtime_r(t)
    IN  (lt.tm_year + 1900) * 100 + (lt.tm_mon + 1)

y_from_time(t) ==
    LET lt == localtime_r(t)
    IN  lt.tm_year + 1900

inches_from_mm(mm) == mm * 5

day_start_ts(t) ==
    LET lt == localtime_r(t)
    IN  mktime([lt EXCEPT !.tm_hour = 0, !.tm_min = 0, !.tm_sec = 0])

-----------------------------------------------------------------------------
(* State initialization and load/save *)

WeatherStateV2 ==
    [temperature_C |-> 0, humidity |-> 0, wind_avg_m_s |-> 0, wind_max_m_s |-> 0,
     rain_mm |-> 0,
     last_rain_mm |-> 0, last_update |-> 0,
     rain_daily_in |-> 0, rain_monthly_in |-> 0, rain_yearly_in |-> 0,
     rain_weekly_in |-> 0, rain_hourly_in |-> 0, rain_event_in |-> 0,
     daily_ymd |-> 0, month_ym |-> 0, year_y |-> 0, week_start_ymd |-> 0,
     deltas |-> <<>>, last_rain_ts |-> 0,
     historical_total_in |-> HISTORICAL_TOTAL_IN,
     historical_yearly_in |-> HISTORICAL_YEARLY_IN,
     historical_monthly_in |-> HISTORICAL_MONTHLY_IN,
     historical_weekly_in |-> HISTORICAL_WEEKLY_IN,
     historical_seeded |-> FALSE,
     have_temp |-> FALSE, temp_high_c |-> 0, temp_low_c |-> 0,
     have_hum |-> FALSE, hum_high |-> 0, hum_low |-> 0,
     day_first_ts |-> 0, day_last_ts |-> 0,
     have_wind |-> FALSE, wind_mean_m_s |-> 0, wind_max_gust_m_s |-> 0,
     wind_sample_count |-> 0]

init_state_defaults(now) ==
    [WeatherStateV2 EXCEPT
        !.last_update    = now,
        !.daily_ymd      = ymd_from_time(now),
        !.month_ym       = ym_from_time(now),
        !.year_y         = y_from_time(now),
        !.week_start_ymd = ymd_from_time(now),
        !.historical_seeded = TRUE]

\* A snapshot file is <<>> (no file) or <<f>>: f.parses says whether the text is
\* JSON, f.j is the object (member name to value), f.wrong the members whose
\* value is a string or null where load_state asks for a number or a boolean.
\* utils::write_file(get_state_path(), j.dump(2)).
file_of(j) == <<[parses |-> TRUE, wrong |-> {}, j |-> j]>>

\* The fields save_state writes; the delta sequence, last_rain_ts and the
\* instantaneous telemetry are not among them.
save_state(st) ==
    file_of(
      [last_rain_mm    |-> st.last_rain_mm,    last_update_ts  |-> st.last_update,
       rain_daily_in   |-> st.rain_daily_in,   rain_monthly_in |-> st.rain_monthly_in,
       rain_yearly_in  |-> st.rain_yearly_in,  rain_weekly_in  |-> st.rain_weekly_in,
       rain_hourly_in  |-> st.rain_hourly_in,  rain_event_in   |-> st.rain_event_in,
       daily_ymd       |-> st.daily_ymd,       month_ym        |-> st.month_ym,
       year_y          |-> st.year_y,          week_start_ymd  |-> st.week_start_ymd,
       historical_total_in   |-> st.historical_total_in,
       historical_yearly_in  |-> st.historical_yearly_in,
       historical_monthly_in |-> st.historical_monthly_in,
       historical_weekly_in  |-> st.historical_weekly_in,
       historical_seeded     |-> st.historical_seeded,
       temp_high_c     |-> st.temp_high_c,     temp_low_c      |-> st.temp_low_c,
       have_temp       |-> st.have_temp,
       hum_high        |-> st.hum_high,        hum_low         |-> st.hum_low,
       have_hum        |-> st.have_hum,
       have_wind       |-> st.have_wind,       wind_mean_m_s   |-> st.wind_mean_m_s,
       wind_max_gust_m_s |-> st.wind_max_gust_m_s,
       wind_sample_count |-> st.wind_sample_count,
       day_first_ts    |-> st.day_first_ts,    day_last_ts     |-> st.day_last_ts])

\* The members load_state reads, in the order of its statements, each with the
\* field it assigns.
LoadOrder ==
    <<<<"last_rain_mm", "last_rain_mm">>, <<"last_update_ts", "last_update">>,
      <<"rain_daily_in", "rain_daily_in">>, <<"rain_monthly_in", "rain_monthly_in">>,
      <<"rain_yearly_in", "rain_yearly_in">>, <<"rain_weekly_in", "rain_weekly_in">>,
      <<"rain_hourly_in", "rain_hourly_in">>, <<"rain_event_in", "rain_event_in">>,
      <<"daily_ymd", "daily_ymd">>, <<"month_ym", "month_ym">>,
      <<"year_y", "year_y">>, <<"week_start_ymd", "week_start_ymd">>,
      <<"historical_total_in", "historical_total_in">>,
      <<"historical_yearly_in", "historical_yearly_in">>,
      <<"historical_monthly_in", "historical_monthly_in">>,
      <<"historical_weekly_in", "historical_weekly_in">>,
      <<"historical_seeded", "historical_seeded">>,
      <<"temp_high_c", "temp_high_c">>, <<"temp_low_c", "temp_low_c">>,
      <<"have_temp", "have_temp">>,
      <<"hum_high", "hum_high">>, <<"hum_low", "hum_low">>, <<"have_hum", "have_hum">>,
      <<"have_wind", "have_wind">>, <<"wind_mean_m_s", "wind_mean_m_s">>,
      <<"wind_max_gust_m_s", "wind_max_gust_m_s">>,
      <<"wind_sample_count", "wind_sample_count">>,
      <<"day_first_ts", "day_first_ts">>, <<"day_last_ts", "day_last_ts">>>>

\* The state after the first n statements "if (j.contains(k)) st.x = j[k].get<T>()".
RECURSIVE load_members(_, _, _)
load_members(st, j, n) ==
    IF n = 0 THEN st
    ELSE IF LoadOrder[n][1] \in DOMAIN j
         THEN [load_members(st, j, n - 1) EXCEPT ![LoadOrder[n][2]] = j[LoadOrder[n][1]]]
         ELSE load_members(st, j, n - 1)

\* The statements that run before get<T>() throws: all of them when none does.
loaded_before_throw(f) ==
    IF \E n \in 1..Len(LoadOrder) : LoadOrder[n][1] \in (DOMAIN f.j) \cap f.wrong
    THEN (CHOOSE n \in 1..Len(LoadOrder) :
              /\ LoadOrder[n][1] \in (DOMAIN f.j) \cap f.wrong
              /\ \A m \in 1..(n - 1) : LoadOrder[m][1] \notin (DOMAIN f.j) \cap f.wrong) - 1
    ELSE Len(LoadOrder)

\* Mutant: the handler keeps what was assigned before the exception.
load_caught_keep(st, now) == st

\* catch (...) of load_state; st is the state when the exception was thrown.
load_caught(st, now) == init_state_defaults(now)

\* Mutant: the process starts from the defaults whatever the file holds.
load_state_fresh(file, st, now) == init_state_defaults(now)

\* load_state(path, st) at time now; st is the state it is given (g_state as
\* constructed) and file what the path holds.
load_state(file, st, now) ==
    IF file = <<>> THEN init_state_defaults(now)
    ELSE IF ~file[1].parses THEN load_caught(st, now)
    ELSE IF loaded_before_throw(file[1]) < Len(LoadOrder)
    THEN load_caught(load_members(init_state_defaults(now), file[1].j,
                                  loaded_before_throw(file[1])), now)
    ELSE load_members(init_state_defaults(now), file[1].j, Len(LoadOrder))


-----------------------------------------------------------------------------
(* DB *)

\* The row of one INSERT OR REPLACE: the bound values of the six columns.
daily_row(day_ts, st, rain_in) ==
    [day_ts        |-> day_ts,
     temp_high_c   |-> IF st.have_temp THEN <<st.temp_high_c>> ELSE <<>>,
     temp_low_c    |-> IF st.have_temp THEN <<st.temp_low_c>>  ELSE <<>>,
     humidity_high |-> IF st.have_hum  THEN <<st.hum_high>>    ELSE <<>>,
     humidity_low  |-> IF st.have_hum  THEN <<st.hum_low>>     ELSE <<>>,
     rain_in       |-> <<rain_in>>]

\* Mutant: the row is written whether or not the store is open.
log_daily_to_db_unchecked(db, day_ts, st, rain_in) ==
    [db EXCEPT
        !.rows    = {r \in @ : r.day_ts # day_ts} \cup {daily_row(day_ts, st, rain_in)},
        !.journal = Append(@, daily_row(day_ts, st, rain_in))]

\* db.open: g_db is not null.  db.rows: the table, at most one row per day_ts
\* (PRIMARY KEY).  db.journal: the statements executed so far, in order.
log_daily_to_db(db, day_ts, st, rain_in) ==
    IF ~db.open THEN db
    ELSE LET row == daily_row(day_ts, st, rain_in)
         IN  [db EXCEPT
                 !.rows    = {r \in @ : r.day_ts # day_ts} \cup {row},
                 !.journal = Append(@, row)]

\* init_db: g_db after sqlite3_open succeeded or failed on a file that holds
\* the rows of table; the rows of a store that is not open are out of the
\* process's reach.
init_db(opened, table) == [table EXCEPT !.open = opened]

-----------------------------------------------------------------------------
(* Rain logic *)

RECURSIVE SumInches(_)
SumInches(v) == IF v = <<>> THEN 0 ELSE v[1].inches + SumInches(Tail(v))

\* Mutant: the window excludes an entry of age exactly HOURLY_WINDOW_SEC.
in_hourly_window_strict(now, ts) == now - ts < HOURLY_WINDOW_SEC

\* The test of the loop of recompute_hourly: the entry stays in the window.
in_hourly_window(now, ts) == now - ts <= HOURLY_WINDOW_SEC

recompute_hourly(st, now) ==
    LET v == SelectSeq(st.deltas, LAMBDA e : in_hourly_window(now, e.ts))
    IN  [st EXCEPT !.deltas = v, !.rain_hourly_in = SumInches(v)]

\* Mutant: the gate wants more than MIN_COVERAGE_SEC.
coverage_ok_strict(st) ==
    /\ st.day_first_ts # 0
    /\ st.day_last_ts # 0
    /\ (st.day_last_ts - st.day_first_ts) > MIN_COVERAGE_SEC

\* bool ok of the day rollover: the coverage gate.
coverage_ok(st) ==
    /\ st.day_first_ts # 0
    /\ st.day_last_ts # 0
    /\ (st.day_last_ts - st.day_first_ts) >= MIN_COVERAGE_SEC

day_rollover(st, d, now) ==
    [st EXCEPT
        !.rain_daily_in     = 0,
        !.daily_ymd         = d,
        !.day_first_ts      = now,
        !.day_last_ts       = now,
        !.have_temp         = FALSE,
        !.have_hum          = FALSE,
        !.have_wind         = FALSE,
        !.wind_mean_m_s     = 0,
        !.wind_max_gust_m_s = 0,
        !.wind_sample_count = 0]

\* Mutant: the month rollover zeroes the yearly accumulator too.
month_rollover_cascade(st, m) ==
    [st EXCEPT !.rain_monthly_in = 0, !.rain_yearly_in = 0, !.month_ym = m]

month_rollover(st, m) == [st EXCEPT !.rain_monthly_in = 0, !.month_ym = m]

year_rollover(st, y) == [st EXCEPT !.rain_yearly_in = 0, !.year_y = y]

week_rollover(st, d) == [st EXCEPT !.rain_weekly_in = 0, !.week_start_ymd = d]

\* std::time_t ws_ts: mktime of 00:00:00 of the day week_start_ymd encodes;
\* std::tm ws_tm{} leaves tm_isdst at 0.
week_start_ts(st) ==
    mktime([tm_year |-> (st.week_start_ymd \div 10000) - 1900,
            tm_mon  |-> ((st.week_start_ymd \div 100) % 100) - 1,
            tm_mday |-> st.week_start_ymd % 100,
            tm_hour |-> 0, tm_min |-> 0, tm_sec |-> 0, tm_isdst |-> 0])

week_elapsed(st, now) == day_start_ts(now) - week_start_ts(st) >= 7 * DAY_SEC

\* The four "if (... == 0) ... = d" of rollover_if_needed: unset keys adopt today.
adopt_keys(st, now) ==
    [st EXCEPT
        !.daily_ymd      = IF @ = 0 THEN ymd_from_time(now) ELSE @,
        !.month_ym       = IF @ = 0 THEN ym_from_time(now) ELSE @,
        !.year_y         = IF @ = 0 THEN y_from_time(now) ELSE @,
        !.week_start_ymd = IF @ = 0 THEN ymd_from_time(now) ELSE @]

prev_day_ts(st, now) ==
    day_start_ts(IF st.day_first_ts # 0 THEN st.day_first_ts ELSE now - DAY_SEC)

\* The four checks of rollover_if_needed, in the order of the code.  r holds the
\* state, the store and (observation) the rollovers that have fired.
roll_day(r, now) ==
    IF ymd_from_time(now) # r.st.daily_ymd
    THEN [st    |-> day_rollover(r.st, ymd_from_time(now), now),
          db    |-> IF coverage_ok(r.st)
                    THEN log_daily_to_db(r.db, prev_day_ts(r.st, now), r.st,
                                         r.st.rain_daily_in)
                    ELSE r.db,
          fired |-> r.fired \cup {"day"}]
    ELSE r

roll_month(r, now) ==
    IF ym_from_time(now) # r.st.month_ym
    THEN [r EXCEPT !.st = month_rollover(@, ym_from_time(now)),
                   !.fired = @ \cup {"month"}]
    ELSE r

roll_year(r, now) ==
    IF y_from_time(now) # r.st.year_y
    THEN [r EXCEPT !.st = year_rollover(@, y_from_time(now)),
                   !.fired = @ \cup {"year"}]
    ELSE r

roll_week(r, now) ==
    IF week_elapsed(r.st, now)
    THEN [r EXCEPT !.st = week_rollover(@, ymd_from_time(now)),
                   !.fired = @ \cup {"week"}]
    ELSE r

rollover_if_needed(st, db, now) ==
    roll_week(roll_year(roll_month(roll_day(
        [st |-> adopt_keys(st, now), db |-> db, fired |-> {}], now), now), now), now)

-----------------------------------------------------------------------------
(* Parse WS90 JSON *)

\* A sample is the object the body parses to, read member by member: j[k] is
\* <<v>> when member k is the number v and <<>> otherwise, and j.text holds the
\* members that are there with a value that is not a number (a string, null).
is_number(j, k) == j[k] # <<>>

contains(j, k) == is_number(j, k) \/ k \in j.text

get_num(j, k, d) == IF is_number(j, k) THEN j[k][1] ELSE d

Max(a, b) == IF a >= b THEN a ELSE b
Min(a, b) == IF a <= b THEN a ELSE b

\* Basic WS90 telemetry (the fields of the model; the others are set alike).
telemetry(st, j) ==
    [st EXCEPT
        !.humidity      = get_num(j, "humidity", 0),
        !.temperature_C = get_num(j, "temperature_C", 0),
        !.wind_avg_m_s  = get_num(j, "wind_avg_m_s", 0),
        !.wind_max_m_s  = get_num(j, "wind_max_m_s", 0),
        !.rain_mm       = get_num(j, "rain_mm", 0)]

\* Mutant: no upper limit on the reading.
rain_in_range_no_upper(rain_mm) == ~(rain_mm < 0)

rain_in_range(rain_mm) == ~(rain_mm < 0 \/ rain_mm > 20000 * MM)

\* Mutant: the first reading is not told apart.
first_rain_sample_never(st) == FALSE

first_rain_sample(st) == st.last_rain_mm = 0

\* Mutant: a delta of zero is accepted.
delta_accepted_nonneg(delta) == delta >= 0 /\ delta < 5000 * MM

\* delta > 0.0001 && delta < 5000
delta_accepted(delta) == delta > 1 /\ delta < 5000 * MM

\* Mutant: a gap of exactly EVENT_GAP_MIN minutes starts a new event.
event_gap_at_30(st, now) ==
    st.last_rain_ts = 0 \/ (now - st.last_rain_ts) >= EVENT_GAP_MIN * 60

event_gap(st, now) ==
    st.last_rain_ts = 0 \/ (now - st.last_rain_ts) > EVENT_GAP_MIN * 60

push_delta(st, di, now) ==
    [st EXCEPT
        !.rain_daily_in   = @ + di,
        !.rain_monthly_in = @ + di,
        !.rain_yearly_in  = @ + di,
        !.rain_weekly_in  = @ + di,
        !.deltas          = Append(@, [ts |-> now, inches |-> di])]

track_event(st, di, now) ==
    [st EXCEPT
        !.rain_event_in = (IF event_gap(st, now) THEN 0 ELSE @) + di,
        !.last_rain_ts  = now]

\* The body of "if (delta > 0.0001 && delta < 5000)".
accumulate(st, di, now) ==
    track_event(recompute_hourly(push_delta(st, di, now), now), di, now)

\* Mutant: every sample restarts the pair.
track_temperature_last(st, j) ==
    IF ~is_number(j, "temperature_C") THEN st
    ELSE [st EXCEPT !.temp_high_c = j.temperature_C[1],
                    !.temp_low_c = j.temperature_C[1], !.have_temp = TRUE]

track_temperature(st, j) ==
    IF ~is_number(j, "temperature_C") THEN st
    ELSE LET tC == j.temperature_C[1]
         IN  IF ~st.have_temp
             THEN [st EXCEPT !.temp_high_c = tC, !.temp_low_c = tC, !.have_temp = TRUE]
             ELSE [st EXCEPT !.temp_high_c = Max(@, tC), !.temp_low_c = Min(@, tC)]

track_humidity(st, j) ==
    IF ~is_number(j, "humidity") THEN st
    ELSE LET h == j.humidity[1]
         IN  IF ~st.have_hum
             THEN [st EXCEPT !.hum_high = h, !.hum_low = h, !.have_hum = TRUE]
             ELSE [st EXCEPT !.hum_high = Max(@, h), !.hum_low = Min(@, h)]

\* Reads g_state.wind_avg_m_s and g_state.wind_max_m_s, which telemetry has set
\* to a number (0 when the sample lacks the field): never NaN.  The quotient of
\* the running mean is floored.
track_wind(st) ==
    IF ~st.have_wind
    THEN [st EXCEPT !.have_wind = TRUE, !.wind_mean_m_s = st.wind_avg_m_s,
                    !.wind_max_gust_m_s = st.wind_max_m_s, !.wind_sample_count = 1]
    ELSE LET n == st.wind_sample_count
         IN  [st EXCEPT
                 !.wind_mean_m_s     = ((@ * n) + st.wind_avg_m_s) \div (n + 1),
                 !.wind_sample_count = n + 1,
                 !.wind_max_gust_m_s = IF st.wind_max_m_s > @ THEN st.wind_max_m_s ELSE @]

\* Track coverage of valid WS90 samples for the current day.
track_coverage(st, now) ==
    [st EXCEPT !.day_first_ts = IF @ = 0 THEN now ELSE @, !.day_last_ts = now]

rain_delta(st, rain_mm, now) ==
    IF delta_accepted(rain_mm - st.last_rain_mm)
    THEN accumulate(st, inches_from_mm(rain_mm - st.last_rain_mm), now)
    ELSE st

\* Mutant: a reading below the last one is not taken as the new reference.
set_last_forward(st, rain_mm, now) ==
    [st EXCEPT !.last_rain_mm = IF rain_mm >= @ THEN rain_mm ELSE @, !.last_update = now]

set_last(st, rain_mm, now) == [st EXCEPT !.last_rain_mm = rain_mm, !.last_update = now]

\* A return of process_ws90_json_locked after save_state(g_state).
saved(st, db, fired) ==
    [st |-> st, db |-> db, file |-> save_state(st), fired |-> fired, threw |-> FALSE]

\* process_ws90_json_locked from "Track coverage" on; r is what rollover_if_needed
\* returned.
after_rollover(r, now, j) ==
    IF first_rain_sample(r.st)
    THEN saved(set_last(track_coverage(r.st, now), j.rain_mm[1], now), r.db, r.fired)
    ELSE saved(track_wind(track_humidity(track_temperature(
                   set_last(rain_delta(track_coverage(r.st, now), j.rain_mm[1], now),
                            j.rain_mm[1], now), j), j)),
               r.db, r.fired)

\* g_state.last_update = now; return;
returned(t, db, file, now) ==
    [st |-> [t EXCEPT !.last_update = now], db |-> db, file |-> file, fired |-> {},
     threw |-> FALSE]

\* j["rain_mm"].get<double>() of a value that is not a number throws
\* json::type_error: the function is left with the telemetry fields assigned.
thrown(t, db, file) == [st |-> t, db |-> db, file |-> file, fired |-> {}, threw |-> TRUE]

\* Mutant: the delta is accumulated first and the rollovers run on the result.
late_rollover(a, now) ==
    saved(rollover_if_needed(a.st, a.db, now).st, rollover_if_needed(a.st, a.db, now).db,
          rollover_if_needed(a.st, a.db, now).fired)

after_telemetry_late(t, db, file, now, j) ==
    IF ~contains(j, "rain_mm") THEN returned(t, db, file, now)
    ELSE IF ~is_number(j, "rain_mm") THEN thrown(t, db, file)
    ELSE IF ~rain_in_range(j.rain_mm[1]) THEN returned(t, db, file, now)
    ELSE late_rollover(after_rollover([st |-> t, db |-> db, fired |-> {}], now, j), now)

\* process_ws90_json_locked after the telemetry fields are set (state t).
after_telemetry(t, db, file, now, j) ==
    IF ~contains(j, "rain_mm") THEN returned(t, db, file, now)
    ELSE IF ~is_number(j, "rain_mm") THEN thrown(t, db, file)
    ELSE IF ~rain_in_range(j.rain_mm[1]) THEN returned(t, db, file, now)
    ELSE after_rollover(rollover_if_needed(t, db, now), now, j)

\* Returns the state, the store and the snapshot file after the call, and
\* (observation) the rollovers that fired in it.
process_ws90_json_locked(st, db, file, now, j) ==
    after_telemetry(telemetry(st, j), db, file, now, j)

-----------------------------------------------------------------------------
(* Poller thread *)

\* What one curl_easy_perform fetched.  res: the CURLcode; http_code: the response
\* code; size: chunk.size; valid: json::parse(chunk.data) does not throw; j: the
\* parsed object read as a sample; error, message: its members "error" and
\* "message", <<>> when missing, else <<[is_string |-> .., v |-> ..]>>.
Fetched(res, http_code, size, valid, j, error, message) ==
    [res |-> res, http_code |-> http_code, size |-> size, valid |-> valid, j |-> j,
     error |-> error, message |-> message]

\* The health globals as they are defined.
g_ws90_defaults ==
    [last_poll |-> 0, http_status |-> 0, http_ok |-> FALSE, rtlsdr_ok |-> FALSE,
     error_code |-> "", error_msg |-> ""]

\* Transport-level failure: res != CURLE_OK (http_code is still 0).
ws_curl_error(now, f) ==
    [last_poll |-> now, http_status |-> 0, http_ok |-> FALSE, rtlsdr_ok |-> FALSE,
     error_code |-> "curl_error", error_msg |-> f.res]

\* Normal good sample.
ws_good(now, f) ==
    [last_poll |-> now, http_status |-> f.http_code, http_ok |-> TRUE, rtlsdr_ok |-> TRUE,
     error_code |-> "", error_msg |-> ""]

\* Mutant: a payload that does not parse still counts as a healthy stream.
ws_parse_error_healthy(now, f) ==
    [last_poll |-> now, http_status |-> f.http_code, http_ok |-> TRUE, rtlsdr_ok |-> TRUE,
     error_code |-> "parse_error", error_msg |-> "invalid JSON from ws90"]

\* catch (...) of the good branch.
ws_parse_error(now, f) ==
    [last_poll |-> now, http_status |-> f.http_code, http_ok |-> TRUE, rtlsdr_ok |-> FALSE,
     error_code |-> "parse_error", error_msg |-> "invalid JSON from ws90"]

\* ej.contains(k) && ej[k].is_string() ? ej[k].get<std::string>() : ""
string_member(m) == IF m # <<>> /\ m[1].is_string THEN m[1].v ELSE ""

err_code(f) == IF f.size > 0 /\ f.valid THEN string_member(f.error) ELSE ""

err_msg(f) ==
    IF f.size > 0
    THEN (IF f.valid THEN string_member(f.message)
          ELSE "non-200 from ws90 with non-JSON body")
    ELSE ""

\* ws_http_error with the error code the body names, whether it names one or not.
ws_http_error_as_named(now, f) ==
    [last_poll |-> now, http_status |-> f.http_code, http_ok |-> (f.http_code # 0),
     rtlsdr_ok |-> FALSE, error_code |-> err_code(f), error_msg |-> err_msg(f)]

\* HTTP error from ws90 (or a 200 with an empty body).
ws_http_error(now, f) ==
    [last_poll |-> now, http_status |-> f.http_code, http_ok |-> (f.http_code # 0),
     rtlsdr_ok |-> FALSE,
     error_code |-> IF err_code(f) # "" THEN err_code(f)
                    ELSE "http_" \o ToString(f.http_code),
     error_msg |-> err_msg(f)]

\* A branch of the poller that leaves g_state, g_db and the snapshot file alone.
health_only(st, db, file, ws) ==
    [st |-> st, db |-> db, file |-> file, fired |-> {}, ws |-> ws, ingested |-> FALSE]

\* The good branch: r is what process_ws90_json_locked returned.
good_sample(r, ws) ==
    [st |-> r.st, db |-> r.db, file |-> r.file, fired |-> r.fired, ws |-> ws,
     ingested |-> TRUE]

\* The good branch when process_ws90_json_locked threw: catch (...) sets the
\* health and leaves g_state as the function left it.
caught(r, ws) ==
    [st |-> r.st, db |-> r.db, file |-> r.file, fired |-> {}, ws |-> ws, ingested |-> FALSE]

\* try { json j = json::parse(chunk.data); process_ws90_json_locked(j); ... }
\* catch (...) { ... }, for a body that parses; r is what the function left.
parsed_sample(r, now, f) ==
    IF r.threw THEN caught(r, ws_parse_error(now, f)) ELSE good_sample(r, ws_good(now, f))

\* The block of poller_thread_func under std::lock_guard<std::mutex> guard(g_lock).
poller_locked(st, db, file, now, f) ==
    IF f.res # "CURLE_OK"
    THEN health_only(st, db, file, ws_curl_error(now, f))
    ELSE IF f.http_code = 200 /\ f.size > 0
         THEN IF f.valid
              THEN parsed_sample(process_ws90_json_locked(st, db, file, now, f.j), now, f)
              ELSE health_only(st, db, file, ws_parse_error(now, f))
         ELSE health_only(st, db, file, ws_http_error(now, f))

-----------------------------------------------------------------------------
(* API JSON build.  Fahrenheit is in units of 0.2 degree and mph in units of *)
(* 0.0001 mph, in which the two conversions are exact.  A JSON null is <<>>. *)

deg_F(c) == c * 9 + 160

mph(v) == v * 22369

\* json daily of build_current_json.
daily_json(st) ==
    [temp_high_F       |-> IF st.have_temp THEN <<deg_F(st.temp_high_c)>> ELSE <<>>,
     temp_low_F        |-> IF st.have_temp THEN <<deg_F(st.temp_low_c)>>  ELSE <<>>,
     humidity_high     |-> IF st.have_hum  THEN <<st.hum_high>> ELSE <<>>,
     humidity_low      |-> IF st.have_hum  THEN <<st.hum_low>>  ELSE <<>>,
     wind_mean_mph     |-> IF st.have_wind THEN <<mph(st.wind_mean_m_s)>> ELSE <<>>,
     wind_gust_max_mph |-> IF st.have_wind THEN <<mph(st.wind_max_gust_m_s)>> ELSE <<>>,
     meaningful        |-> (st.have_temp \/ st.have_hum \/ st.have_wind)]

\* json rain of build_current_json (the six horizons).
\* Mutant: the excess of the year over the historical year is added even when
\* it is negative.
total_in_signed(st) ==
    st.historical_total_in + (st.rain_yearly_in - st.historical_yearly_in)

\* double total_in of build_current_json.
total_in(st) ==
    IF st.rain_yearly_in > st.historical_yearly_in
    THEN st.historical_total_in + (st.rain_yearly_in - st.historical_yearly_in)
    ELSE st.historical_total_in

rain_json(st) ==
    [daily_in   |-> st.rain_daily_in,   event_in   |-> st.rain_event_in,
     hourly_in  |-> st.rain_hourly_in,  weekly_in  |-> st.rain_weekly_in,
     monthly_in |-> st.rain_monthly_in, yearly_in  |-> st.rain_yearly_in,
     total_in   |-> total_in(st)]

\* int age of build_current_json.
age(st, now) == IF st.last_update # 0 THEN now - st.last_update ELSE -1

\* Mutant: stale at 60 s.
stale_at_60(st, now) == st.last_update # 0 /\ age(st, now) >= 60

\* bool stale of build_current_json.
stale(st, now) == st.last_update # 0 /\ age(st, now) > 60

\* json ws of build_current_json; "error" and "error_message" are members only
\* when the strings are not empty.
ws90_status_json(st, ws, now) ==
    [http_ok        |-> ws.http_ok,
     rtlsdr_ok      |-> ws.rtlsdr_ok,
     last_poll_ts   |-> ws.last_poll,
     last_update_ts |-> st.last_update,
     age_sec        |-> age(st, now),
     stale          |-> stale(st, now),
     http_status    |-> ws.http_status,
     error          |-> IF ws.error_code # "" THEN <<ws.error_code>> ELSE <<>>,
     error_message  |-> IF ws.error_msg # "" THEN <<ws.error_msg>> ELSE <<>>]

\* The members of the snapshot the model follows.
build_current_json(st, ws, now) ==
    [humidity      |-> st.humidity,
     temperature_F |-> deg_F(st.temperature_C),
     wind_avg_m_s  |-> st.wind_avg_m_s,
     wind_max_m_s  |-> st.wind_max_m_s,
     rain          |-> rain_json(st),
     daily         |-> daily_json(st),
     ws90_status   |-> ws90_status_json(st, ws, now)]

-----------------------------------------------------------------------------
(* History queries on daily_weather *)

\* The rows of S, whose keys lie in lo..hi, in the order of the primary key: the
\* rows of the lower half of the keys, then the rows of the upper half.
RECURSIVE index_scan(_, _, _)
index_halves(S, lo, mid, hi) ==
    index_scan({r \in S : r.day_ts <= mid}, lo, mid)
        \o index_scan({r \in S : r.day_ts > mid}, mid + 1, hi)
index_scan(S, lo, hi) ==
    IF S = {} THEN <<>>
    ELSE IF Cardinality(S) = 1 THEN <<CHOOSE r \in S : TRUE>>
    ELSE index_halves(S, lo, (lo + hi) \div 2, hi)

\* SELECT ... FROM daily_weather ORDER BY day_ts (day_ts is the INTEGER PRIMARY
\* KEY; the keys of the model lie within 32 bits).
ORDER_BY_day_ts(rows) == index_scan(rows, -1073741824, 1073741823)


\* Modes: simple, no params; time_only, days only; paged, any limit/offset.
simple(days, limit, offset) == days < 0 /\ limit < 0 /\ offset < 0

time_only(days, limit, offset) == days >= 0 /\ limit < 0 /\ offset < 0

paged(days, limit, offset) ==
    ~simple(days, limit, offset) /\ ~time_only(days, limit, offset)

\* Mutant: a paged query filters by time whenever days was given.
use_since_given(days) == days >= 0

\* bool use_since of the paged mode.
use_since(days) == days > 0

since_ts(now, days) == now - days * 86400

\* Mutant: the filter leaves out the day that starts at since_ts.
where_day_ts_after(day_ts, since) == day_ts > since

\* WHERE day_ts >= ?1
where_day_ts(day_ts, since) == day_ts >= since

WHERE(s, since) == SelectSeq(s, LAMBDA r : where_day_ts(r.day_ts, since))

\* LIMIT ? OFFSET ? (a negative LIMIT is no limit, a negative OFFSET is 0).
LIMIT_OFFSET(s, limit, offset) ==
    SubSeq(s, Max(offset, 0) + 1,
           IF limit < 0 THEN Len(s) ELSE Min(Len(s), Max(offset, 0) + limit))

\* Mutant: the simple mode pages with the default limit.
select_simple_capped(rows) == LIMIT_OFFSET(ORDER_BY_day_ts(rows), 100, 0)

\* The statement of the simple mode.
select_simple(rows) == ORDER_BY_day_ts(rows)

\* The statement of the time_only mode.
select_time_only(rows, now, days) ==
    IF days = 0 THEN ORDER_BY_day_ts(rows)
    ELSE WHERE(ORDER_BY_day_ts(rows), since_ts(now, days))

\* The statement of the paged mode.
select_paged(rows, now, days, limit, offset) ==
    IF use_since(days)
    THEN LIMIT_OFFSET(WHERE(ORDER_BY_day_ts(rows), since_ts(now, days)), limit, offset)
    ELSE LIMIT_OFFSET(ORDER_BY_day_ts(rows), limit, offset)

\* The rows sqlite3_step returns, in order; the three functions build the same
\* statement but for the columns.
select_days(rows, now, days, limit, offset) ==
    IF simple(days, limit, offset) THEN select_simple(rows)
    ELSE IF time_only(days, limit, offset) THEN select_time_only(rows, now, days)
    ELSE select_paged(rows, now, days, limit, offset)

\* std::isnan(hi) || std::isnan(lo), hi and lo being NAN for a NULL column.
null_extremes(hi, lo) == hi = <<>> \/ lo = <<>>

\* Mutant: a day without rain data is not skipped.
rain_skipped_never(r) == FALSE

\* rain_type == SQLITE_NULL: no rain data for this day - skip it.
rain_skipped(r) == r.rain_in = <<>>

\* sqlite3_column_double: 0.0 for a NULL column.
column_double(col) == IF col = <<>> THEN 0 ELSE col[1]

temperature_row(r) ==
    [day         |-> r.day_ts,
     temp_high_F |-> IF null_extremes(r.temp_high_c, r.temp_low_c) THEN <<>>
                     ELSE <<deg_F(column_double(r.temp_high_c))>>,
     temp_low_F  |-> IF null_extremes(r.temp_high_c, r.temp_low_c) THEN <<>>
                     ELSE <<deg_F(column_double(r.temp_low_c))>>]

humidity_row(r) ==
    [day           |-> r.day_ts,
     humidity_high |-> IF null_extremes(r.humidity_high, r.humidity_low) THEN <<>>
                       ELSE <<column_double(r.humidity_high)>>,
     humidity_low  |-> IF null_extremes(r.humidity_high, r.humidity_low) THEN <<>>
                       ELSE <<column_double(r.humidity_low)>>]

rain_row(r) == [day |-> r.day_ts, rain_in |-> column_double(r.rain_in)]

temperature_rows(s) == [i \in 1..Len(s) |-> temperature_row(s[i])]

humidity_rows(s) == [i \in 1..Len(s) |-> humidity_row(s[i])]

rain_kept(s) == SelectSeq(s, LAMBDA r : ~rain_skipped(r))

rain_rows(s) == [i \in 1..Len(s) |-> rain_row(s[i])]

\* out["days"] of the three history functions.
history_temperature_json(db, now, days, limit, offset) ==
    IF ~db.open THEN <<>>
    ELSE temperature_rows(select_days(db.rows, now, days, limit, offset))

history_humidity_json(db, now, days, limit, offset) ==
    IF ~db.open THEN <<>>
    ELSE humidity_rows(select_days(db.rows, now, days, limit, offset))

history_rain_json(db, now, days, limit, offset) ==
    IF ~db.open THEN <<>>
    ELSE rain_rows(rain_kept(select_days(db.rows, now, days, limit, offset)))

-----------------------------------------------------------------------------
(* api_v2.cpp.  A request is its method, its url and the values of the query *)
(* arguments days, limit and offset: <<>> when the argument is not in the    *)
(* query, else <<val>>, val being the string of its characters.              *)

DEFAULT_LIMIT == 100
DEFAULT_OFFSET == 0
MAX_LIMIT == 365

isspace(c) == c = " "

isdigit(c) == c \in {"0", "1", "2", "3", "4", "5", "6", "7", "8", "9"}

digit(c) ==
    CASE c = "0" -> 0 [] c = "1" -> 1 [] c = "2" -> 2 [] c = "3" -> 3 [] c = "4" -> 4
      [] c = "5" -> 5 [] c = "6" -> 6 [] c = "7" -> 7 [] c = "8" -> 8 [] c = "9" -> 9

RECURSIVE skip_space(_)
skip_space(val) ==
    IF val # <<>> /\ isspace(Head(val)) THEN skip_space(Tail(val)) ELSE val

skip_sign(val) == IF val # <<>> /\ Head(val) \in {"-", "+"} THEN Tail(val) ELSE val

RECURSIVE digits(_, _)
digits(val, acc) ==
    IF val # <<>> /\ isdigit(Head(val))
    THEN digits(Tail(val), acc * 10 + digit(Head(val)))
    ELSE acc

signed(val, v) == IF val # <<>> /\ Head(val) = "-" THEN -v ELSE v

\* std::strtol(val, &end, 10): white space, a sign, digits; the rest of the string
\* is left alone.  converted: end != val.  (The strings of the model stay inside
\* the range of long.)
strtol(val) ==
    [converted |-> (skip_sign(skip_space(val)) # <<>>
                    /\ isdigit(Head(skip_sign(skip_space(val))))),
     v         |-> signed(skip_space(val), digits(skip_sign(skip_space(val)), 0))]

\* Return the value of a query parameter; <<>> is nullptr.
get_query_value_ci(r, name) == r[name]

\* val && *val
has_value(raw) == raw # <<>> /\ raw[1] # <<>>

\* Mutant: the parsed value is not clamped.
clamp_none(v, min_value, max_value) == v

\* if (v < min_value) v = min_value; if (v > max_value) v = max_value;
clamp(v, min_value, max_value) ==
    IF (IF v < min_value THEN min_value ELSE v) > max_value THEN max_value
    ELSE (IF v < min_value THEN min_value ELSE v)

get_query_int_ci(r, name, default_value, min_value, max_value) ==
    IF ~has_value(get_query_value_ci(r, name)) THEN default_value
    ELSE IF ~strtol(get_query_value_ci(r, name)[1]).converted THEN default_value
    ELSE clamp(strtol(get_query_value_ci(r, name)[1]).v, min_value, max_value)

has_days(r) == has_value(get_query_value_ci(r, "days"))
has_limit(r) == has_value(get_query_value_ci(r, "limit"))
has_offset(r) == has_value(get_query_value_ci(r, "offset"))

\* int days, limit, offset of api_v2::route, after the three branches.
route_days(r) ==
    IF ~has_days(r) /\ ~has_limit(r) /\ ~has_offset(r) THEN -1
    ELSE get_query_int_ci(r, "days", 0, 0, 3650)

route_limit(r) ==
    IF ~has_limit(r) /\ ~has_offset(r) THEN -1
    ELSE get_query_int_ci(r, "limit", DEFAULT_LIMIT, 1, MAX_LIMIT)

route_offset(r) ==
    IF ~has_limit(r) /\ ~has_offset(r) THEN -1
    ELSE get_query_int_ci(r, "offset", DEFAULT_OFFSET, 0, 1000000)

\* A reply: the status and what the body holds.
reply_json(status, error, days, current) ==
    [status |-> status, error |-> error, days |-> days, current |-> current]

\* api_v2::route; current_weather_json builds the snapshot under g_lock.
route(r, st, ws, db, now) ==
    IF r.method = "OPTIONS" THEN reply_json(204, <<>>, <<>>, <<>>)
    ELSE IF r.method # "GET" THEN reply_json(405, <<"method not allowed">>, <<>>, <<>>)
    ELSE IF r.url = "/api/v2/weather"
    THEN reply_json(200, <<>>, <<>>, <<build_current_json(st, ws, now)>>)
    ELSE IF r.url = "/api/v2/history/temperature"
    THEN reply_json(200, <<>>, <<history_temperature_json(
             db, now, route_days(r), route_limit(r), route_offset(r))>>, <<>>)
    ELSE IF r.url = "/api/v2/history/humidity"
    THEN reply_json(200, <<>>, <<history_humidity_json(
             db, now, route_days(r), route_limit(r), route_offset(r))>>, <<>>)
    ELSE IF r.url = "/api/v2/history/rain"
    THEN reply_json(200, <<>>, <<history_rain_json(
             db, now, route_days(r), route_limit(r), route_offset(r))>>, <<>>)
    ELSE reply_json(404, <<"unknown endpoint">>, <<>>, <<>>)

\* A request, and (observation) the time at which it was served, the days, limit
\* and offset api_v2::route passed on, the mode the history function took, the
\* time of the last ingest before it and the number of rows written to the
\* store before it.
NoRequest == [method |-> "", url |-> "", days |-> <<>>, limit |-> <<>>, offset |-> <<>>,
              now |-> 0, args |-> <<-1, -1, -1>>, mode |-> "", ingest |-> 0,
              journal |-> 0]

ModeOf(days, limit, offset) ==
    IF simple(days, limit, offset) THEN "simple"
    ELSE IF time_only(days, limit, offset) THEN "time_only" ELSE "paged"

-----------------------------------------------------------------------------
(* Bounds and inputs *)

FineIngests == 4      \* ingests of a run of Spec
CalIngests == 6       \* ingests of a run of SpecCal
MinuteRun == 63       \* ingests of a run of SpecMinute
QueryRuns == 1        \* requests of a run of SpecQuery and of SpecScan
PollRuns == 3         \* polls of a run of SpecPoll
LockPolls == 2        \* polls of a run of SpecLock
LockRequests == 2     \* requests of a run of SpecLock
DeltaIngests == 3     \* ingests of a run of SpecDelta
SnapPolls == 3        \* polls of a run of SpecSnap
ClosedIngests == 3    \* ingests of a run of SpecClosed
RestartIngests == 3   \* ingests of a run of SpecRestart
HistPolls == 1        \* polls of a run of SpecHist
LivePolls == 2        \* polls of a run of SpecLive
LiveRequests == 1     \* requests of a run of SpecLive
HistRequests == 2     \* requests of a run of SpecHist
Restarts == 1         \* restarts of a run of SpecRestart
WeekIngests == 9      \* ingests of a run of SpecWeek
CrashPolls == 2       \* polls of a run of SpecCrash
FallIngests == 3      \* ingests of a run of SpecFall
Crashes == 1          \* times the process is killed in a run of SpecCrash

At(month, mday, hour, min) ==
    mktime([tm_year |-> 125, tm_mon |-> month - 1, tm_mday |-> mday,
            tm_hour |-> hour, tm_min |-> min, tm_sec |-> 0, tm_isdst |-> 0])

Sample(rain, temp, hum, wind) ==
    [rain_mm |-> rain, temperature_C |-> temp, humidity |-> hum,
     wind_avg_m_s |-> wind, wind_max_m_s |-> IF wind = <<>> THEN <<>> ELSE <<wind[1] + 3>>,
     text |-> {}]

\* A sample whose rain_mm is a string.
TextRain(temp, hum, wind) == [Sample(<<>>, temp, hum, wind) EXCEPT !.text = {"rain_mm"}]

\* Spec: the hour before and after midnight of 31 December 2025, in steps
\* inside and outside the hourly window and the event gap, one of them backward.
FineBoot == {At(12, 31, 22, 30)}
FineSteps == {1800, 3601, -3601}
FineSamples ==
    {Sample(<<>>, <<7>>, <<40>>, <<2>>),
     Sample(<<20000 * MM + 1>>, <<3>>, <<>>, <<>>),
     Sample(<<-1>>, <<>>, <<60>>, <<>>),
     Sample(<<10 * MM>>, <<5>>, <<50>>, <<4>>),
     Sample(<<11 * MM>>, <<9>>, <<>>, <<>>),
     Sample(<<0>>, <<6>>, <<55>>, <<1>>)}

\* SpecDelta: readings whose differences are one and two units of 0.0001 mm,
\* 5000 mm, a little less than 5000 mm, and negative, around the same midnight.
DeltaBoot == {At(12, 31, 22, 30)}
DeltaSteps == {1800, 3601}
DeltaSamples ==
    {Sample(<<4 * MM>>, <<6>>, <<55>>, <<1>>),
     Sample(<<10 * MM>>, <<5>>, <<50>>, <<4>>),
     Sample(<<10 * MM + 2>>, <<9>>, <<>>, <<>>),
     Sample(<<10 * MM + 3>>, <<9>>, <<>>, <<>>),
     Sample(<<5010 * MM>>, <<7>>, <<40>>, <<2>>)}

\* SpecCal: half days, weeks and a backward day around the ends of November
\* and December 2025.
CalBoot == {At(12, 24, 23, 0), At(11, 29, 23, 0)}
CalSteps == {12 * 3600, 7 * DAY_SEC, -DAY_SEC}
CalSamples ==
    {Sample(<<10 * MM>>, <<5>>, <<50>>, <<4>>),
     Sample(<<11 * MM>>, <<9>>, <<>>, <<>>)}

\* SpecMinute: one sample a minute, each 1 mm above the last.
MinuteBoot == {At(12, 31, 10, 0), At(12, 31, 23, 20)}
MinuteSamples == {Sample(<<(10 + k) * MM>>, <<5>>, <<50>>, <<4>>) : k \in 0..(MinuteRun + 1)}

\* SpecQuery and SpecScan: the table holds rows of days before 31 December 2025;
\* a row is what log_daily_to_db binds, or has a NULL rain_in, which the schema
\* allows and the rain query expects.
StoredDay(k, temp, hum, rain) ==
    [day_ts        |-> At(12, 31, 0, 0) - k * DAY_SEC,
     temp_high_c   |-> IF temp = <<>> THEN <<>> ELSE <<temp[1] + 4>>,
     temp_low_c    |-> temp,
     humidity_high |-> IF hum = <<>> THEN <<>> ELSE <<hum[1] + 20>>,
     humidity_low  |-> hum,
     rain_in       |-> rain]

Table(rows) == [open |-> TRUE, rows |-> rows, journal |-> <<>>]

QueryBoot == {At(12, 31, 0, 0), At(12, 31, 13, 30)}

QueryStores ==
    {{StoredDay(1, <<3>>, <<40>>, <<5000>>), StoredDay(10, <<1>>, <<45>>, <<0>>)},
     {StoredDay(1, <<-4>>, <<0>>, <<0>>),    StoredDay(2, <<>>, <<>>, <<>>),
      StoredDay(7, <<>>, <<50>>, <<200>>),   StoredDay(8, <<2>>, <<>>, <<>>),
      StoredDay(3650, <<6>>, <<60>>, <<700>>), StoredDay(3651, <<8>>, <<70>>, <<>>)}}

Urls == {"/api/v2/history/temperature", "/api/v2/history/humidity", "/api/v2/history/rain"}

\* Values of a query argument: <<>> is an argument that is not in the query,
\* <<val>> one with the string val.
PlainDays == {<<>>, <<<<"7">>>>}
PlainLimit == {<<>>, <<<<"1">>>>}
PlainOffset == {<<>>, <<<<"1">>>>}
OddDays == {<<<<>>>>, <<<<"x">>>>, <<<<"0">>>>, <<<<"-", "1">>>>, <<<<"9", "9", "9", "9">>>>}
OddLimit == {<<<<>>>>, <<<<"a", "b", "c">>>>, <<<<"0">>>>, <<<<"4", "0", "0">>>>,
             <<<<"2", "x">>>>}
OddOffset == {<<<<>>>>, <<<<"-", "3">>>>, <<<<" ", "2">>>>,
              <<<<"2", "0", "0", "0", "0", "0", "0">>>>}

Get(url, days, limit, offset) ==
    [NoRequest EXCEPT !.method = "GET", !.url = url, !.days = days, !.limit = limit,
                      !.offset = offset]

\* History requests with at most one argument out of the plain, and the ones
\* with all given arguments empty.
QueryRequests ==
    {Get(u, d, l, o) : u \in Urls, d \in PlainDays \cup OddDays, l \in PlainLimit,
                       o \in PlainOffset}
    \cup {Get(u, d, l, o) : u \in Urls, d \in PlainDays, l \in OddLimit, o \in PlainOffset}
    \cup {Get(u, d, l, o) : u \in Urls, d \in PlainDays, l \in PlainLimit, o \in OddOffset}
    \cup {Get(u, d, l, o) : u \in Urls, d \in {<<>>, <<<<>>>>}, l \in {<<>>, <<<<>>>>},
                            o \in {<<>>, <<<<>>>>}}

\* The other requests: the snapshot, an unknown url, other methods.
OtherRequests ==
    {Get("/api/v2/weather", <<>>, <<>>, <<>>),
     Get("/api/v2/weather", <<<<"7">>>>, <<<<"x">>>>, <<>>),
     Get("/api/v2/history", <<<<"7">>>>, <<>>, <<>>),
     [Get("/api/v2/history/rain", <<<<"7">>>>, <<>>, <<>>) EXCEPT !.method = "OPTIONS"],
     [Get("/api/v2/history/rain", <<>>, <<>>, <<>>) EXCEPT !.method = "POST"]}

\* SpecScan: tables of up to StoreDays days, more than a page can hold.
StoreDays == 366

ScanDay(k) ==
    StoredDay(k, IF k % 3 = 0 THEN <<>> ELSE <<(k % 11) - 5>>,
                 IF k % 4 = 0 THEN <<>> ELSE <<40 + (k % 40)>>,
                 IF k % 5 = 0 THEN <<>> ELSE <<k * 100>>)

ScanStores ==
    {{},
     {StoredDay(1, <<3>>, <<40>>, <<5000>>), StoredDay(10, <<1>>, <<45>>, <<0>>)},
     {ScanDay(k) : k \in 1..StoreDays}}

\* The arguments days, limit, offset of the requests of SpecScan: none; days
\* alone; limit or offset, with and without days.
Arg(val) == <<val>>
ScanArgs ==
    {<<<<>>, <<>>, <<>>>>,
     <<Arg(<<"0">>), <<>>, <<>>>>,
     <<Arg(<<"7">>), <<>>, <<>>>>,
     <<Arg(<<"4", "0", "0">>), <<>>, <<>>>>,
     <<Arg(<<"7">>), Arg(<<"1">>), Arg(<<"0">>)>>,
     <<Arg(<<"0">>), Arg(<<"1">>), <<>>>>,
     <<<<>>, Arg(<<"4", "0", "0">>), <<>>>>,
     <<<<>>, <<>>, Arg(<<"2">>)>>,
     <<Arg(<<"4", "0", "0">>), Arg(<<"1">>), Arg(<<"2">>)>>,
     <<Arg(<<"7">>), Arg(<<"4", "0", "0">>), Arg(<<"0">>)>>,
     <<<<>>, Arg(<<"1">>), Arg(<<"2">>)>>,
     <<Arg(<<"4", "0", "0">>), <<>>, Arg(<<"0">>)>>}

ScanRequests == {Get(u, a[1], a[2], a[3]) : u \in Urls, a \in ScanArgs}

NoSample == Sample(<<>>, <<>>, <<>>, <<>>)

\* A 200 with a body that parses to the sample j.
GoodFetch(j) == Fetched("CURLE_OK", 200, 1, TRUE, j, <<>>, <<>>)

\* SpecPoll: what a poll can fetch.  A member of the body: missing, a string,
\* or not a string.
String(v) == <<[is_string |-> TRUE, v |-> v]>>
NotString == <<[is_string |-> FALSE, v |-> ""]>>

PollBoot == {At(12, 31, 23, 59)}
PollSteps == {10, 15}
PollSamples ==
    {Sample(<<10 * MM>>, <<5>>, <<50>>, <<4>>), Sample(<<11 * MM>>, <<>>, <<>>, <<>>)}

TransportFailures ==
    {Fetched(res, 0, size, FALSE, NoSample, <<>>, <<>>) :
        res \in {"CURLE_COULDNT_CONNECT", "CURLE_OPERATION_TIMEDOUT"}, size \in {0, 1}}

Garbled == {Fetched("CURLE_OK", 200, 1, FALSE, NoSample, <<>>, <<>>)}

\* A body that parses and holds "rain_mm": "n/a".
Unusable == {GoodFetch(TextRain(<<7>>, <<40>>, <<2>>))}

ErrorReplies ==
    {Fetched("CURLE_OK", 200, 0, FALSE, NoSample, <<>>, <<>>),
     Fetched("CURLE_OK", 503, 1, TRUE, NoSample, String("stale_data"), String("no packet for 120 s")),
     Fetched("CURLE_OK", 503, 1, TRUE, NoSample, String("no_data"), <<>>),
     Fetched("CURLE_OK", 503, 1, TRUE, NoSample, String(""), NotString),
     Fetched("CURLE_OK", 503, 1, TRUE, NoSample, NotString, String("busy")),
     Fetched("CURLE_OK", 503, 1, FALSE, NoSample, <<>>, <<>>),
     Fetched("CURLE_OK", 503, 0, FALSE, NoSample, <<>>, <<>>),
     Fetched("CURLE_OK", 500, 1, TRUE, NoSample, String("internal"), String("oops")),
     Fetched("CURLE_OK", 404, 1, TRUE, NoSample, <<>>, <<>>)}

PollFetches ==
    TransportFailures \cup {GoodFetch(j) : j \in PollSamples} \cup Garbled \cup Unusable
        \cup ErrorReplies

\* SpecSnap: polls 10, 60 and 61 s apart in the last minutes of 2025 that fail,
\* bring a sample without rain, or bring a reading 1 mm or 2000 mm (78 in) above
\* the last; a snapshot is requested after any of them.
SnapBoot == {At(12, 31, 23, 58)}
SnapSteps == {10, 60, 61}
SnapSamples ==
    {Sample(<<>>, <<7>>, <<40>>, <<2>>),
     Sample(<<10 * MM>>, <<5>>, <<50>>, <<4>>),
     Sample(<<11 * MM>>, <<6>>, <<55>>, <<1>>),
     Sample(<<2010 * MM>>, <<9>>, <<>>, <<>>)}
SnapFetches ==
    {GoodFetch(j) : j \in SnapSamples}
    \cup {Fetched("CURLE_COULDNT_CONNECT", 0, 0, FALSE, NoSample, <<>>, <<>>)}

\* SpecClosed: the store file holds rows but could not be opened; samples come
\* 12 h apart from 11:00 of 30 December 2025 on, and any history request after
\* any of them.
ClosedBoot == {At(12, 29, 23, 0)}
ClosedSteps == {12 * 3600}
ClosedSamples == CalSamples
ClosedStores == {init_db(FALSE, Table(rows)) : rows \in QueryStores}

\* SpecRestart: samples half an hour apart around the midnight of
\* 31 December 2025, and a restart 5 s or an hour after any of them.
RestartBoot == {At(12, 31, 22, 30)}
RestartSteps == {1800}
RestartSamples ==
    {Sample(<<>>, <<7>>, <<40>>, <<2>>),
     Sample(<<10 * MM>>, <<5>>, <<50>>, <<4>>),
     Sample(<<11 * MM>>, <<9>>, <<>>, <<>>),
     Sample(<<12 * MM>>, <<6>>, <<55>>, <<1>>)}
RestartDelays == {5, 3601}
RestartDamages == {"intact", "removed", "truncated", "last_rain_mm", "have_temp", "day_last_ts"}

\* SpecWeek: one sample a day at noon (standard time), from Monday 5 January
\* 2026 or from Monday 1 June 2026 on.
WeekBoot == {At(1, 5, 12, 0) + 365 * DAY_SEC, At(6, 1, 12, 0) + 365 * DAY_SEC}
WeekSteps == {DAY_SEC}
WeekSamples == CalSamples

\* SpecFall: the days on which summer time begins and ends.  The process starts
\* at 04:00 of Saturday 8 March 2025 or at 00:05 (summer time) of Sunday 26 October
\* 2025; the next sample comes an hour, 13 hours, a day or a week later.
FallBoot == {At(3, 8, 4, 0), At(10, 25, 23, 5)}
FallSteps == {3600, 13 * 3600, DAY_SEC, 7 * DAY_SEC}
FallSamples == CalSamples

\* SpecLock: the process has run since 10:00 of 31 December 2025 and has polled
\* last at 23:50; the next poll comes 10 s later or, after a slow fetch, past
\* midnight.
LockSeed == Sample(<<10 * MM>>, <<5>>, <<50>>, <<4>>)
LockLast == Sample(<<11 * MM>>, <<7>>, <<40>>, <<2>>)
LockSteps == {10, 700}
LockSamples == {Sample(<<12 * MM>>, <<3>>, <<60>>, <<6>>), Sample(<<>>, <<4>>, <<>>, <<>>)}
LockFetches ==
    {GoodFetch(j) : j \in LockSamples} \cup Unusable
    \cup {Fetched("CURLE_OPERATION_TIMEDOUT", 0, 0, FALSE, NoSample, <<>>, <<>>),
          Fetched("CURLE_OK", 200, 1, FALSE, NoSample, <<>>, <<>>),
          Fetched("CURLE_OK", 503, 1, TRUE, NoSample, String("stale_data"), <<>>)}
\* SpecHist: the process of SpecLock with a store that holds the two days before
\* 31 December 2025, and history requests without arguments.
HistStore == {StoredDay(1, <<3>>, <<40>>, <<5000>>), StoredDay(2, <<>>, <<>>, <<>>)}
SimpleRequests == {Get(u, <<>>, <<>>, <<>>) : u \in Urls}
\* SpecLive: the process of SpecLock, whose first poll comes after a slow fetch,
\* past midnight; a poll brings a sample with or without a rain reading or with
\* one that is a string, times out, or gets a body that is not JSON or an error
\* reply.
LiveSteps == {700}
LiveFetches ==
    {GoodFetch(Sample(<<12 * MM>>, <<3>>, <<60>>, <<6>>)),
     GoodFetch(Sample(<<>>, <<3>>, <<60>>, <<6>>)),
     GoodFetch(TextRain(<<7>>, <<40>>, <<2>>)),
     Fetched("CURLE_OPERATION_TIMEDOUT", 0, 0, FALSE, NoSample, <<>>, <<>>),
     Fetched("CURLE_OK", 200, 1, FALSE, NoSample, <<>>, <<>>),
     Fetched("CURLE_OK", 503, 1, TRUE, NoSample, String("stale_data"), <<>>)}
WeatherRequest == Get("/api/v2/weather", <<>>, <<>>, <<>>)
HistoryRequests == {Get("/api/v2/history/rain", <<>>, <<>>, <<>>)}

-----------------------------------------------------------------------------
(* Observation of a run *)

InRange(j) == j.rain_mm # <<>> /\ j.rain_mm[1] >= 0 /\ j.rain_mm[1] <= 20000 * MM

\* The rain delta (inches) an ingest of sample j accepts in state st, 0 if none.
DeltaIn(st, j) ==
    IF InRange(j) /\ st.last_rain_mm # 0
       /\ j.rain_mm[1] - st.last_rain_mm > 1
       /\ j.rain_mm[1] - st.last_rain_mm < 5000 * MM
    THEN ((j.rain_mm[1] - st.last_rain_mm) * 10) \div 2
    ELSE 0

Observe(h, st, now, j, fired) ==
    [n        |-> h.n + 1,
     polls    |-> h.polls + 1,
     requests |-> h.requests,
     fired    |-> fired,
     mono     |-> h.mono /\ now >= clock,
     seq_ok   |-> h.seq_ok /\ InRange(j) /\ j.rain_mm[1] >= st.last_rain_mm
                  /\ j.rain_mm[1] - st.last_rain_mm < 5000 * MM,
     day_base |-> IF "day" \in fired THEN Len(h.accepted) ELSE h.day_base,
     accepted |-> IF DeltaIn(st, j) # 0
                  THEN Append(h.accepted, [ts |-> now, inches |-> DeltaIn(st, j)])
                  ELSE h.accepted,
     rolled   |-> h.rolled
                  \o (IF "day" \in fired THEN <<<<"day", ymd_from_time(now)>>>> ELSE <<>>)
                  \o (IF "month" \in fired THEN <<<<"month", ym_from_time(now)>>>> ELSE <<>>)
                  \o (IF "year" \in fired THEN <<<<"year", y_from_time(now)>>>> ELSE <<>>)
                  \o (IF "week" \in fired THEN <<<<"week", ymd_from_time(now)>>>> ELSE <<>>),
     restarts |-> h.restarts,
     boot_n   |-> h.boot_n,
     crashed  |-> h.crashed]

-----------------------------------------------------------------------------
(* The state machine *)

(***************************************************************************)
(* The bridge, server/ws90/src/ws90_api.cpp.  Text is a sequence of        *)
(* tokens: "{" and "}", "n" for the white space that ends a line of        *)
(* rtl_433, "x" for text that is not JSON, and the members of an object   *)
(* as one token, a key of Members.                                         *)
(***************************************************************************)
STALE_SECONDS == 30
MAX_FIFO_CHUNK == 2048
MAX_JSON_SIZE == 8192

\* The file-scope variables and the static buf of process_fifo_bytes as main finds
\* them, after the arguments gave the filter id (<<>>: no --id).
ws90_api_defaults(id) ==
    [buf |-> <<>>, latest_json |-> <<>>, have_json |-> FALSE, last_update |-> 0,
     filter_id |-> id]

fifo_empty == [pipe |-> <<>>, lines |-> <<>>, nread |-> 0]

\* The four things the poller writes under g_lock.
Live(st, db, file, ws) == [st |-> st, db |-> db, file |-> file, ws |-> ws]

\* The process after state_v2::init() at time now, with no snapshot file and the
\* table db.
Start(now, db) ==
    /\ clock = now
    /\ g_state = init_state_defaults(now)
    /\ g_db = db
    /\ g_file = <<>>
    /\ g_ws90 = g_ws90_defaults
    /\ g_lock = ""
    /\ ws90_api = ws90_api_defaults(<<>>)
    /\ fifo = fifo_empty
    /\ pc = [poller |-> "sleep", http |-> "idle", now |-> now, f |-> GoodFetch(NoSample),
             cursor |-> -1]
    /\ req = NoRequest
    /\ resp = reply_json(0, <<>>, <<>>, <<>>)
    /\ pre = [st |-> init_state_defaults(now), db |-> db]
    /\ inp = [now |-> now, j |-> NoSample]
    /\ poll = [now |-> now, f |-> GoodFetch(NoSample), ingested |-> FALSE,
               before    |-> Live(init_state_defaults(now), db, <<>>, g_ws90_defaults),
               committed |-> Live(init_state_defaults(now), db, <<>>, g_ws90_defaults)]
    /\ hist = [n |-> 0, polls |-> 0, requests |-> 0, fired |-> {}, mono |-> TRUE, seq_ok |-> TRUE,
               day_base |-> 0, accepted |-> <<>>, rolled |-> <<>>,
               restarts |-> 0, boot_n |-> 0, crashed |-> <<>>]

Boot(now) == Start(now, [open |-> TRUE, rows |-> {}, journal |-> <<>>])

\* The observation of a poll at time now that fetched f and left r.
Observed(r, now, f) ==
    /\ pre' = IF r.ingested THEN [st |-> g_state, db |-> g_db] ELSE pre
    /\ inp' = IF r.ingested THEN [now |-> now, j |-> f.j] ELSE inp
    /\ poll' = [now |-> now, f |-> f, ingested |-> r.ingested,
                before    |-> Live(g_state, g_db, g_file, g_ws90),
                committed |-> Live(r.st, r.db, r.file, r.ws)]
    /\ hist' = IF r.ingested THEN Observe(hist, g_state, now, f.j, r.fired)
               ELSE [hist EXCEPT !.polls = @ + 1, !.mono = @ /\ now >= clock]

\* One iteration of the poller, taken as one step: r is what the locked block
\* leaves.
Commit(r, now, f) ==
    /\ g_lock = ""
    /\ g_state' = r.st
    /\ g_db' = r.db
    /\ g_file' = r.file
    /\ g_ws90' = r.ws
    /\ clock' = now
    /\ Observed(r, now, f)
    /\ UNCHANGED <<ws90_api, fifo, g_lock, pc, req, resp>>

\* One poll at time now that fetched f.
Poll(now, f) == Commit(poller_locked(g_state, g_db, g_file, now, f), now, f)

\* One poll that fetched sample j at time now: process_ws90_json_locked(j).
Ingest(now, j) == Poll(now, GoodFetch(j))

\* No fetch: what poll.f holds when the last step was the start of the process.
NoFetch == Fetched("", 0, 0, FALSE, NoSample, <<>>, <<>>)

\* The process ends and is started again at time now: state_v2::init() runs
\* load_state on the file the path holds and init_db on the store.  Between the
\* two runs the file was left alone (damage = "intact"), removed, cut short so
\* that it is no longer JSON ("truncated"), or one member (damage names it) was
\* given a string for a value.
Damaged(file, damage) ==
    IF file = <<>> \/ damage = "intact" THEN file
    ELSE IF damage = "removed" THEN <<>>
    ELSE IF damage = "truncated" THEN <<[file[1] EXCEPT !.parses = FALSE]>>
    ELSE <<[file[1] EXCEPT !.wrong = {damage}]>>

Restart(now, damage) ==
    /\ g_lock = ""
    /\ g_state' = load_state(Damaged(g_file, damage), WeatherStateV2, now)
    /\ g_file' = Damaged(g_file, damage)
    /\ g_db' = init_db(g_db.open, g_db)
    /\ g_ws90' = g_ws90_defaults
    /\ clock' = now
    /\ poll' = [now |-> now, f |-> NoFetch, ingested |-> FALSE,
                before    |-> Live(g_state, g_db, g_file, g_ws90),
                committed |-> Live(load_state(Damaged(g_file, damage), WeatherStateV2, now),
                                   g_db, Damaged(g_file, damage), g_ws90_defaults)]
    /\ hist' = [hist EXCEPT !.restarts = @ + 1, !.boot_n = hist.n, !.crashed = <<g_state>>]
    /\ UNCHANGED <<ws90_api, fifo, g_lock, pc, req, resp, pre, inp>>

\* One request served by the HTTP thread, taken as one step.
Request(r) ==
    /\ g_lock = ""
    /\ req' = [r EXCEPT !.now = clock,
                        !.args = <<route_days(r), route_limit(r), route_offset(r)>>,
                        !.mode = ModeOf(route_days(r), route_limit(r), route_offset(r)),
                        !.ingest = inp.now]
    /\ resp' = route(r, g_state, g_ws90, g_db, clock)
    /\ hist' = [hist EXCEPT !.requests = @ + 1]
    /\ UNCHANGED <<ws90_api, fifo, g_state, g_db, g_file, g_ws90, clock, g_lock, pc, pre, inp, poll>>

Init == \E now \in FineBoot : Boot(now)

Next ==
    /\ hist.n < FineIngests
    /\ \E dt \in FineSteps, j \in FineSamples : Ingest(clock + dt, j)

Spec == Init /\ [][Next]_vars

InitDelta == \E now \in DeltaBoot : Boot(now)

NextDelta ==
    /\ hist.n < DeltaIngests
    /\ \E dt \in DeltaSteps, j \in DeltaSamples : Ingest(clock + dt, j)

SpecDelta == InitDelta /\ [][NextDelta]_vars

InitSnap == \E now \in SnapBoot : Boot(now)

NextSnap ==
    \/ /\ hist.polls < SnapPolls
       /\ \E dt \in SnapSteps, f \in SnapFetches : Poll(clock + dt, f)
    \/ /\ hist.requests < QueryRuns
       /\ Request(WeatherRequest)

SpecSnap == InitSnap /\ [][NextSnap]_vars

InitClosed == \E now \in ClosedBoot, db \in ClosedStores : Start(now, db)

NextClosed ==
    \/ /\ hist.n < ClosedIngests
       /\ \E dt \in ClosedSteps, j \in ClosedSamples : Ingest(clock + dt, j)
    \/ /\ hist.requests < QueryRuns
       /\ \E r \in ScanRequests : Request(r)

SpecClosed == InitClosed /\ [][NextClosed]_vars

InitRestart == \E now \in RestartBoot : Boot(now)

NextRestart ==
    \/ /\ hist.n < RestartIngests
       /\ \E dt \in RestartSteps, j \in RestartSamples : Ingest(clock + dt, j)
    \/ /\ hist.restarts < Restarts
       /\ \E dt \in RestartDelays, damage \in RestartDamages : Restart(clock + dt, damage)

SpecRestart == InitRestart /\ [][NextRestart]_vars

InitWeek == \E now \in WeekBoot : Boot(now)

NextWeek ==
    /\ hist.n < WeekIngests
    /\ \E dt \in WeekSteps, j \in WeekSamples : Ingest(clock + dt, j)

SpecWeek == InitWeek /\ [][NextWeek]_vars

InitFall == \E now \in FallBoot : Boot(now)

NextFall ==
    /\ hist.n < FallIngests
    /\ \E dt \in FallSteps, j \in FallSamples : Ingest(clock + dt, j)

SpecFall == InitFall /\ [][NextFall]_vars

InitCal == \E now \in CalBoot : Boot(now)

NextCal ==
    /\ hist.n < CalIngests
    /\ \E dt \in CalSteps, j \in CalSamples : Ingest(clock + dt, j)

SpecCal == InitCal /\ [][NextCal]_vars

InitMinute == \E now \in MinuteBoot : Boot(now)

NextMinute ==
    /\ hist.n < MinuteRun
    /\ \E j \in MinuteSamples :
          /\ j.rain_mm[1] = (IF g_state.last_rain_mm = 0 THEN 10 * MM
                             ELSE g_state.last_rain_mm + MM)
          /\ Ingest(clock + 60, j)

SpecMinute == InitMinute /\ [][NextMinute]_vars

\* SpecQuery: the HTTP thread serves requests on a table that is there at start.
InitQuery == \E now \in QueryBoot, rows \in QueryStores : Start(now, Table(rows))

NextQuery ==
    /\ hist.requests < QueryRuns
    /\ \E r \in QueryRequests \cup OtherRequests : Request(r)

SpecQuery == InitQuery /\ [][NextQuery]_vars

\* SpecPoll: the poller, every outcome of the fetch.
InitPoll == \E now \in PollBoot : Boot(now)

NextPoll ==
    /\ hist.polls < PollRuns
    /\ \E dt \in PollSteps, f \in PollFetches : Poll(clock + dt, f)

SpecPoll == InitPoll /\ [][NextPoll]_vars

-----------------------------------------------------------------------------
(* SpecLock: the poller thread and the HTTP thread, statement by statement.  *)
(* pc.poller and pc.http are the places of the two threads; pc.now and pc.f  *)
(* are the locals now and res, http_code, chunk of the poller.               *)

\* Mutant: the lock is taken whoever holds it.
can_lock_always(lock) == TRUE

\* std::lock_guard<std::mutex>(g_lock) returns once no thread holds g_lock.
can_lock(lock) == lock = ""

\* The sample has a rain reading within range.
rain_usable(j) == IF is_number(j, "rain_mm") THEN rain_in_range(j.rain_mm[1]) ELSE FALSE

\* The sample has a rain_mm that j["rain_mm"].get<double>() throws on.
rain_throws(j) == contains(j, "rain_mm") /\ ~is_number(j, "rain_mm")

good_branch(f) == f.res = "CURLE_OK" /\ f.http_code = 200 /\ f.size > 0

\* static std::atomic<bool> g_running{true}: read by the loop test of the
\* poller and assigned nowhere.
g_running == TRUE

\* while (g_running.load()) and the fetch of the iteration, dt after the last:
\* curl_easy_perform and std::time, outside the lock.
PollerFetch(dt, f) ==
    /\ pc.poller = "sleep"
    /\ g_running
    /\ clock' = clock + dt
    /\ pc' = [pc EXCEPT !.poller = "fetched", !.now = clock + dt, !.f = f]
    /\ UNCHANGED <<ws90_api, fifo, g_state, g_db, g_file, g_ws90, g_lock, req, resp, pre, inp, poll, hist>>

PollerLock ==
    /\ pc.poller = "fetched"
    /\ can_lock(g_lock)
    /\ g_lock' = "poller"
    /\ pc' = [pc EXCEPT !.poller = "locked"]
    /\ poll' = [poll EXCEPT !.now = pc.now, !.f = pc.f,
                            !.before = Live(g_state, g_db, g_file, g_ws90)]
    /\ UNCHANGED <<ws90_api, fifo, g_state, g_db, g_file, g_ws90, clock, req, resp, pre, inp, hist>>

\* g_ws90_last_poll = now; g_ws90_http_status = http_code;
PollerStamp ==
    /\ pc.poller = "locked"
    /\ g_ws90' = [g_ws90 EXCEPT !.last_poll = pc.now, !.http_status = pc.f.http_code]
    /\ pc' = [pc EXCEPT !.poller = "stamped"]
    /\ UNCHANGED <<ws90_api, fifo, g_state, g_db, g_file, g_lock, clock, req, resp, pre, inp, poll, hist>>

PollerFailure ==
    /\ pc.poller = "stamped"
    /\ pc.f.res # "CURLE_OK"
    /\ g_ws90' = ws_curl_error(pc.now, pc.f)
    /\ pc' = [pc EXCEPT !.poller = "done"]
    /\ UNCHANGED <<ws90_api, fifo, g_state, g_db, g_file, g_lock, clock, req, resp, pre, inp, poll, hist>>

PollerGarbage ==
    /\ pc.poller = "stamped"
    /\ good_branch(pc.f) /\ ~pc.f.valid
    /\ g_ws90' = ws_parse_error(pc.now, pc.f)
    /\ pc' = [pc EXCEPT !.poller = "done"]
    /\ UNCHANGED <<ws90_api, fifo, g_state, g_db, g_file, g_lock, clock, req, resp, pre, inp, poll, hist>>

PollerHttpError ==
    /\ pc.poller = "stamped"
    /\ pc.f.res = "CURLE_OK" /\ ~good_branch(pc.f)
    /\ g_ws90' = ws_http_error(pc.now, pc.f)
    /\ pc' = [pc EXCEPT !.poller = "done"]
    /\ UNCHANGED <<ws90_api, fifo, g_state, g_db, g_file, g_lock, clock, req, resp, pre, inp, poll, hist>>

\* process_ws90_json_locked: the telemetry fields.
PollerTelemetry ==
    /\ pc.poller = "stamped"
    /\ good_branch(pc.f) /\ pc.f.valid
    /\ g_state' = telemetry(g_state, pc.f.j)
    /\ pc' = [pc EXCEPT !.poller = "telemetry"]
    /\ UNCHANGED <<ws90_api, fifo, g_db, g_file, g_ws90, g_lock, clock, req, resp, pre, inp, poll, hist>>

\* No rain reading, or one out of range: g_state.last_update = now; return;
PollerNoRain ==
    /\ pc.poller = "telemetry"
    /\ ~rain_usable(pc.f.j) /\ ~rain_throws(pc.f.j)
    /\ g_state' = [g_state EXCEPT !.last_update = pc.now]
    /\ pc' = [pc EXCEPT !.poller = "processed"]
    /\ UNCHANGED <<ws90_api, fifo, g_db, g_file, g_ws90, g_lock, clock, req, resp, pre, inp, poll, hist>>

\* j["rain_mm"].get<double>() throws: the catch (...) of the good branch.
PollerThrows ==
    /\ pc.poller = "telemetry"
    /\ rain_throws(pc.f.j)
    /\ g_ws90' = ws_parse_error(pc.now, pc.f)
    /\ pc' = [pc EXCEPT !.poller = "done"]
    /\ UNCHANGED <<ws90_api, fifo, g_state, g_db, g_file, g_lock, clock, req, resp, pre, inp, poll, hist>>

\* rollover_if_needed: log_daily_to_db of the day that ends, if the day changes
\* and the coverage is there.
PollerFlush ==
    /\ pc.poller = "telemetry"
    /\ rain_usable(pc.f.j)
    /\ g_db' = rollover_if_needed(g_state, g_db, pc.now).db
    /\ pc' = [pc EXCEPT !.poller = "flushed"]
    /\ UNCHANGED <<ws90_api, fifo, g_state, g_file, g_ws90, g_lock, clock, req, resp, pre, inp, poll, hist>>

\* rollover_if_needed: the resets of the day, month, year and week.
PollerReset ==
    /\ pc.poller = "flushed"
    /\ g_state' = rollover_if_needed(g_state, g_db, pc.now).st
    /\ pc' = [pc EXCEPT !.poller = "rolled"]
    /\ UNCHANGED <<ws90_api, fifo, g_db, g_file, g_ws90, g_lock, clock, req, resp, pre, inp, poll, hist>>

\* process_ws90_json_locked from "Track coverage" to the wind block.
PollerTrack ==
    /\ pc.poller = "rolled"
    /\ g_state' = after_rollover([st |-> g_state, db |-> g_db, fired |-> {}],
                                 pc.now, pc.f.j).st
    /\ pc' = [pc EXCEPT !.poller = "tracked"]
    /\ UNCHANGED <<ws90_api, fifo, g_db, g_file, g_ws90, g_lock, clock, req, resp, pre, inp, poll, hist>>

\* save_state(g_state)
PollerSave ==
    /\ pc.poller = "tracked"
    /\ g_file' = save_state(g_state)
    /\ pc' = [pc EXCEPT !.poller = "processed"]
    /\ UNCHANGED <<ws90_api, fifo, g_state, g_db, g_ws90, g_lock, clock, req, resp, pre, inp, poll, hist>>

PollerHealthy ==
    /\ pc.poller = "processed"
    /\ g_ws90' = ws_good(pc.now, pc.f)
    /\ pc' = [pc EXCEPT !.poller = "done"]
    /\ UNCHANGED <<ws90_api, fifo, g_state, g_db, g_file, g_lock, clock, req, resp, pre, inp, poll, hist>>

\* Mutant: the block ends without releasing g_lock.
PollerUnlock_held ==
    /\ pc.poller = "done"
    /\ pc' = [pc EXCEPT !.poller = "sleep"]
    /\ poll' = [poll EXCEPT !.committed = Live(g_state, g_db, g_file, g_ws90),
                            !.ingested = good_branch(pc.f) /\ pc.f.valid
                                         /\ ~rain_throws(pc.f.j)]
    /\ hist' = [hist EXCEPT !.polls = @ + 1]
    /\ UNCHANGED <<ws90_api, fifo, g_state, g_db, g_file, g_ws90, g_lock, clock, req, resp, pre, inp>>

\* The end of the block: the guard releases g_lock; then the sleep.
PollerUnlock ==
    /\ pc.poller = "done"
    /\ g_lock' = ""
    /\ pc' = [pc EXCEPT !.poller = "sleep"]
    /\ poll' = [poll EXCEPT !.committed = Live(g_state, g_db, g_file, g_ws90),
                            !.ingested = good_branch(pc.f) /\ pc.f.valid
                                         /\ ~rain_throws(pc.f.j)]
    /\ hist' = [hist EXCEPT !.polls = @ + 1]
    /\ UNCHANGED <<ws90_api, fifo, g_state, g_db, g_file, g_ws90, clock, req, resp, pre, inp>>

\* api_v2::route up to the call of current_weather_json.
HttpAccept(r) ==
    /\ pc.http = "idle"
    /\ req' = [r EXCEPT !.now = clock]
    /\ resp' = reply_json(0, <<>>, <<>>, <<>>)
    /\ pc' = [pc EXCEPT !.http = "accepted"]
    /\ hist' = [hist EXCEPT !.requests = @ + 1]
    /\ UNCHANGED <<ws90_api, fifo, g_state, g_db, g_file, g_ws90, g_lock, clock, pre, inp, poll>>

\* current_weather_json: std::lock_guard<std::mutex> g(g_lock)
HttpLock ==
    /\ pc.http = "accepted"
    /\ can_lock(g_lock)
    /\ g_lock' = "http"
    /\ pc' = [pc EXCEPT !.http = "reading"]
    /\ UNCHANGED <<ws90_api, fifo, g_state, g_db, g_file, g_ws90, clock, req, resp, pre, inp, poll, hist>>

\* build_current_json().dump()
HttpBuild ==
    /\ pc.http = "reading"
    /\ req' = [req EXCEPT !.now = clock]
    /\ resp' = route(req, g_state, g_ws90, g_db, clock)
    /\ pc' = [pc EXCEPT !.http = "built"]
    /\ UNCHANGED <<ws90_api, fifo, g_state, g_db, g_file, g_ws90, g_lock, clock, pre, inp, poll, hist>>

\* The return of current_weather_json: the guard releases g_lock.
HttpUnlock ==
    /\ pc.http = "built"
    /\ g_lock' = ""
    /\ pc' = [pc EXCEPT !.http = "idle"]
    /\ UNCHANGED <<ws90_api, fifo, g_state, g_db, g_file, g_ws90, clock, req, resp, pre, inp, poll, hist>>

\* A history request: the history functions do not take g_lock.
HttpHistory(r) ==
    /\ pc.http = "idle"
    /\ req' = [r EXCEPT !.now = clock,
                        !.args = <<route_days(r), route_limit(r), route_offset(r)>>,
                        !.mode = ModeOf(route_days(r), route_limit(r), route_offset(r))]
    /\ resp' = route(r, g_state, g_ws90, g_db, clock)
    /\ hist' = [hist EXCEPT !.requests = @ + 1]
    /\ UNCHANGED <<ws90_api, fifo, g_state, g_db, g_file, g_ws90, g_lock, clock, pc, pre, inp, poll>>

\* The state at 23:50: two ingests since 10:00.
LockT0 == At(12, 31, 10, 0)
LockT1 == At(12, 31, 23, 50)
Warm ==
    poller_locked(
        poller_locked(init_state_defaults(LockT0), Table({}), <<>>, LockT0,
                      GoodFetch(LockSeed)).st,
        Table({}), <<>>, LockT1, GoodFetch(LockLast))

InitLock ==
    /\ clock = LockT1
    /\ g_state = Warm.st
    /\ g_db = Warm.db
    /\ g_file = Warm.file
    /\ g_ws90 = Warm.ws
    /\ g_lock = ""
    /\ ws90_api = ws90_api_defaults(<<>>)
    /\ fifo = fifo_empty
    /\ pc = [poller |-> "sleep", http |-> "idle", now |-> LockT1, f |-> GoodFetch(LockLast),
             cursor |-> -1]
    /\ req = NoRequest
    /\ resp = reply_json(0, <<>>, <<>>, <<>>)
    /\ pre = [st |-> Warm.st, db |-> Warm.db]
    /\ inp = [now |-> LockT1, j |-> LockLast]
    /\ poll = [now |-> LockT1, f |-> GoodFetch(LockLast), ingested |-> TRUE,
               before    |-> Live(Warm.st, Warm.db, Warm.file, Warm.ws),
               committed |-> Live(Warm.st, Warm.db, Warm.file, Warm.ws)]
    /\ hist = [n |-> 0, polls |-> 0, requests |-> 0, fired |-> {}, mono |-> TRUE,
               seq_ok |-> TRUE, day_base |-> 0, accepted |-> <<>>, rolled |-> <<>>,
               restarts |-> 0, boot_n |-> 0, crashed |-> <<>>]

NextLock ==
    \/ /\ hist.polls < LockPolls
       /\ \E dt \in LockSteps, f \in LockFetches : PollerFetch(dt, f)
    \/ PollerLock
    \/ PollerStamp
    \/ PollerFailure
    \/ PollerGarbage
    \/ PollerHttpError
    \/ PollerTelemetry
    \/ PollerNoRain
    \/ PollerThrows
    \/ PollerFlush
    \/ PollerReset
    \/ PollerTrack
    \/ PollerSave
    \/ PollerHealthy
    \/ PollerUnlock
    \/ /\ hist.requests < LockRequests
       /\ HttpAccept(WeatherRequest)
    \/ HttpLock
    \/ HttpBuild
    \/ HttpUnlock
    \/ /\ hist.requests < LockRequests
       /\ \E r \in HistoryRequests : HttpHistory(r)

SpecLock == InitLock /\ [][NextLock]_vars

\* The history functions take no lock: no state of g_lock holds them up.
\* Mutant: they wait while the poller holds it.
history_blocked_by_poller(lock) == lock = "poller"

history_blocked(lock) == FALSE

\* The rows a SELECT ... ORDER BY day_ts has still to return after the row of
\* key cursor, and the next of them.  Each sqlite3_step runs under the mutex of
\* the connection, as does the sqlite3_step of an INSERT: a step sees a row
\* written before it, whole.
remaining(rows, cursor) == {r \in rows : r.day_ts > cursor}

next_row(rows, cursor) ==
    CHOOSE r \in remaining(rows, cursor) :
        \A q \in remaining(rows, cursor) : r.day_ts <= q.day_ts

\* What the loop body of a history function appends for row r.
days_entry(url, r) ==
    IF url = "/api/v2/history/rain"
    THEN IF rain_skipped(r) THEN <<>> ELSE <<rain_row(r)>>
    ELSE IF url = "/api/v2/history/humidity" THEN <<humidity_row(r)>>
    ELSE <<temperature_row(r)>>

\* history_*_json in the simple mode up to sqlite3_prepare_v2.
HistoryPrepare(r) ==
    /\ pc.http = "idle"
    /\ ~history_blocked(g_lock)
    /\ g_db.open
    /\ req' = [r EXCEPT !.now = clock,
                        !.args = <<route_days(r), route_limit(r), route_offset(r)>>,
                        !.mode = ModeOf(route_days(r), route_limit(r), route_offset(r)),
                        !.journal = Len(g_db.journal)]
    /\ resp' = reply_json(0, <<>>, <<<<>>>>, <<>>)
    /\ pc' = [pc EXCEPT !.http = "stepping", !.cursor = -1]
    /\ hist' = [hist EXCEPT !.requests = @ + 1]
    /\ UNCHANGED <<ws90_api, fifo, g_state, g_db, g_file, g_ws90, g_lock, clock, pre, inp, poll>>

\* One sqlite3_step that returns SQLITE_ROW, and the loop body.
HistoryStep ==
    /\ pc.http = "stepping"
    /\ ~history_blocked(g_lock)
    /\ remaining(g_db.rows, pc.cursor) # {}
    /\ resp' = [resp EXCEPT !.days =
                   <<@[1] \o days_entry(req.url, next_row(g_db.rows, pc.cursor))>>]
    /\ pc' = [pc EXCEPT !.cursor = next_row(g_db.rows, pc.cursor).day_ts]
    /\ UNCHANGED <<ws90_api, fifo, g_state, g_db, g_file, g_ws90, g_lock, clock, req, pre, inp, poll, hist>>

\* The sqlite3_step that returns SQLITE_DONE, sqlite3_finalize and the reply.
HistoryDone ==
    /\ pc.http = "stepping"
    /\ ~history_blocked(g_lock)
    /\ remaining(g_db.rows, pc.cursor) = {}
    /\ resp' = [resp EXCEPT !.status = 200]
    /\ pc' = [pc EXCEPT !.http = "idle"]
    /\ UNCHANGED <<ws90_api, fifo, g_state, g_db, g_file, g_ws90, g_lock, clock, req, pre, inp, poll, hist>>

InitHist ==
    /\ clock = LockT1
    /\ g_state = Warm.st
    /\ g_db = Table(HistStore)
    /\ g_file = Warm.file
    /\ g_ws90 = Warm.ws
    /\ g_lock = ""
    /\ ws90_api = ws90_api_defaults(<<>>)
    /\ fifo = fifo_empty
    /\ pc = [poller |-> "sleep", http |-> "idle", now |-> LockT1, f |-> GoodFetch(LockLast),
             cursor |-> -1]
    /\ req = NoRequest
    /\ resp = reply_json(0, <<>>, <<>>, <<>>)
    /\ pre = [st |-> Warm.st, db |-> Table(HistStore)]
    /\ inp = [now |-> LockT1, j |-> LockLast]
    /\ poll = [now |-> LockT1, f |-> GoodFetch(LockLast), ingested |-> TRUE,
               before    |-> Live(Warm.st, Table(HistStore), Warm.file, Warm.ws),
               committed |-> Live(Warm.st, Table(HistStore), Warm.file, Warm.ws)]
    /\ hist = [n |-> 0, polls |-> 0, requests |-> 0, fired |-> {}, mono |-> TRUE,
               seq_ok |-> TRUE, day_base |-> 0, accepted |-> <<>>, rolled |-> <<>>,
               restarts |-> 0, boot_n |-> 0, crashed |-> <<>>]

NextHist ==
    \/ /\ hist.polls < HistPolls
       /\ \E dt \in LockSteps, f \in LockFetches : PollerFetch(dt, f)
    \/ PollerLock
    \/ PollerStamp
    \/ PollerFailure
    \/ PollerGarbage
    \/ PollerHttpError
    \/ PollerTelemetry
    \/ PollerNoRain
    \/ PollerThrows
    \/ PollerFlush
    \/ PollerReset
    \/ PollerTrack
    \/ PollerSave
    \/ PollerHealthy
    \/ PollerUnlock
    \/ /\ hist.requests < HistRequests
       /\ \E r \in SimpleRequests : HistoryPrepare(r)
    \/ HistoryStep
    \/ HistoryDone

SpecHist == InitHist /\ [][NextHist]_vars

\* log_daily_to_db when sqlite3_prepare_v2 or sqlite3_step fails: the result is
\* not looked at and no row is written.
PollerFlushFails ==
    /\ pc.poller = "telemetry"
    /\ rain_usable(pc.f.j)
    /\ pc' = [pc EXCEPT !.poller = "flushed"]
    /\ UNCHANGED <<ws90_api, fifo, g_state, g_db, g_file, g_ws90, g_lock, clock, req, resp, pre, inp, poll, hist>>

\* save_state when utils::write_file fails: it returns false, which save_state
\* does not look at, and the file is as it was.
PollerSaveFails ==
    /\ pc.poller = "tracked"
    /\ pc' = [pc EXCEPT !.poller = "processed"]
    /\ UNCHANGED <<ws90_api, fifo, g_state, g_db, g_file, g_ws90, g_lock, clock, req, resp, pre, inp, poll, hist>>

\* The steps of the poller thread and of the HTTP thread in SpecLive.
PollerWakes ==
    /\ hist.polls < LivePolls
    /\ \E dt \in LiveSteps, f \in LiveFetches : PollerFetch(dt, f)

PollerNext ==
    \/ PollerWakes
    \/ PollerLock
    \/ PollerStamp
    \/ PollerFailure
    \/ PollerGarbage
    \/ PollerHttpError
    \/ PollerTelemetry
    \/ PollerNoRain
    \/ PollerThrows
    \/ PollerFlush
    \/ PollerFlushFails
    \/ PollerReset
    \/ PollerTrack
    \/ PollerSave
    \/ PollerSaveFails
    \/ PollerHealthy
    \/ PollerUnlock

HttpNext == HttpLock \/ HttpBuild \/ HttpUnlock

NextLive ==
    \/ PollerNext
    \/ /\ hist.requests < LiveRequests
       /\ HttpAccept(WeatherRequest)
    \/ HttpNext

\* The poller inside the locked block goes on to its next statement.
PollerPositions ==
    {"locked", "stamped", "telemetry", "flushed", "rolled", "tracked", "processed", "done",
     "sleep"}

PollerInside ==
    /\ pc.poller \in PollerPositions \ {"sleep"}
    /\ \E p \in PollerPositions \ {pc.poller} : pc' = [pc EXCEPT !.poller = p]

\* Both threads are scheduled: the sleep ends after POLL_INTERVAL_SEC and the
\* fetch returns within its 5 s timeout (CURLOPT_TIMEOUT); a thread that waits
\* for the lock gets it once it stays free; a thread inside its block goes on.
SpecLive ==
    /\ InitLock
    /\ [][NextLive]_vars
    /\ WF_vars(PollerWakes)
    /\ WF_vars(PollerLock)
    /\ WF_pc(PollerInside)
    /\ WF_vars(HttpNext)

\* SpecCrash: the process of SpecLock without requests; it is killed at any
\* statement of the poller and started again at once: state_v2::init() loads the
\* snapshot the file holds and opens the store.  pre keeps the state the new
\* process starts from, and the store and the file the killed one left.
Crash ==
    /\ hist.restarts < Crashes
    /\ g_state' = load_state(g_file, WeatherStateV2, clock)
    /\ g_db' = init_db(g_db.open, g_db)
    /\ g_ws90' = g_ws90_defaults
    /\ g_lock' = ""
    /\ pc' = [pc EXCEPT !.poller = "sleep"]
    /\ pre' = [st |-> load_state(g_file, WeatherStateV2, clock), db |-> g_db, file |-> g_file]
    /\ hist' = [hist EXCEPT !.restarts = @ + 1, !.boot_n = hist.polls,
                            !.crashed = <<g_state>>]
    /\ UNCHANGED <<ws90_api, fifo, g_file, clock, req, resp, inp, poll>>

NextCrash ==
    \/ /\ hist.polls < CrashPolls
       /\ \E dt \in LockSteps, f \in LockFetches : PollerFetch(dt, f)
    \/ PollerLock
    \/ PollerStamp
    \/ PollerFailure
    \/ PollerGarbage
    \/ PollerHttpError
    \/ PollerTelemetry
    \/ PollerNoRain
    \/ PollerThrows
    \/ PollerFlush
    \/ PollerReset
    \/ PollerTrack
    \/ PollerSave
    \/ PollerHealthy
    \/ PollerUnlock
    \/ Crash

SpecCrash == InitLock /\ [][NextCrash]_vars

\* The process is stopped.  main() installs no signal handler and never returns,
\* state_v2 exports no function that clears g_running, and the poller thread is
\* detached: the process ends by a signal, and its threads end where they are.
Terminate ==
    /\ pc.poller # "killed"
    /\ pc' = [pc EXCEPT !.poller = "killed"]
    /\ UNCHANGED <<ws90_api, fifo, g_state, g_db, g_file, g_ws90, g_lock, clock, req, resp, pre, inp, poll, hist>>

NextStop ==
    \/ /\ pc.poller # "killed"
       /\ NextLock
    \/ Terminate

SpecStop == InitLock /\ [][NextStop]_vars

InitScan == \E now \in QueryBoot, rows \in ScanStores : Start(now, Table(rows))

NextScan ==
    /\ hist.requests < QueryRuns
    /\ \E r \in ScanRequests : Request(r)

SpecScan == InitScan /\ [][NextScan]_vars

-----------------------------------------------------------------------------
(* Properties.  They are stated on the state after an ingest (hist.n > 0):   *)
(* g_state and g_db are the state after it, pre the state before it, inp its *)
(* time and sample.                                                          *)

Now == inp.now
Reading == inp.j.rain_mm[1]

\* Local midnight of the day a yyyymmdd key encodes.
KeyTs(ymd) == At((ymd \div 100) % 100, ymd % 100, 0, 0) + ((ymd \div 10000) - 2025) * 365 * DAY_SEC

DayElapsed == ymd_from_time(Now) # pre.st.daily_ymd
MonthElapsed == ym_from_time(Now) # pre.st.month_ym
YearElapsed == y_from_time(Now) # pre.st.year_y
WeekElapsed == KeyTs(ymd_from_time(Now)) - KeyTs(pre.st.week_start_ymd) >= 7 * 86400

\* The rows the last ingest wrote to the store.
Written == SubSeq(g_db.journal, Len(pre.db.journal) + 1, Len(g_db.journal))

\* The last ingest added no delta: the calendar accumulators changed as the
\* rollovers of that ingest alone change them, and the hourly window, the event
\* and the delta sequence did not change.
NoDelta ==
    /\ g_state.rain_daily_in   = (IF DayElapsed   THEN 0 ELSE pre.st.rain_daily_in)
    /\ g_state.rain_monthly_in = (IF MonthElapsed THEN 0 ELSE pre.st.rain_monthly_in)
    /\ g_state.rain_yearly_in  = (IF YearElapsed  THEN 0 ELSE pre.st.rain_yearly_in)
    /\ g_state.rain_weekly_in  = (IF WeekElapsed  THEN 0 ELSE pre.st.rain_weekly_in)
    /\ g_state.rain_hourly_in  = pre.st.rain_hourly_in
    /\ g_state.rain_event_in   = pre.st.rain_event_in
    /\ g_state.deltas          = pre.st.deltas
    /\ g_state.last_rain_ts    = pre.st.last_rain_ts

AccumulatorsUnchanged ==
    /\ g_state.rain_daily_in   = pre.st.rain_daily_in
    /\ g_state.rain_monthly_in = pre.st.rain_monthly_in
    /\ g_state.rain_yearly_in  = pre.st.rain_yearly_in
    /\ g_state.rain_weekly_in  = pre.st.rain_weekly_in
    /\ g_state.rain_hourly_in  = pre.st.rain_hourly_in
    /\ g_state.rain_event_in   = pre.st.rain_event_in

\* C1: after every ingest of a run with non-decreasing timestamps, every entry
\* of the delta sequence is at most 3600 s older than the ingest, and hourly_in
\* is the sum of the entries.  (Stated for the ingests of an in-range reading,
\* the ones that reach the rain accounting.)
C1_HourlyWindow ==
    (hist.n > 0 /\ hist.mono /\ InRange(inp.j)) =>
        /\ \A i \in 1..Len(g_state.deltas) : Now - g_state.deltas[i].ts <= 3600
        /\ g_state.rain_hourly_in = SumInches(g_state.deltas)

\* C2: at a day rollover a row is written iff the coverage of the elapsed day
\* is at least 12 h; the row is keyed by the start of the elapsed day and holds
\* daily_in and the extremes as they were before the reset.  No other ingest
\* writes a row.
C2_CoverageGate ==
    hist.n > 0 =>
        /\ ~(InRange(inp.j) /\ DayElapsed) => Written = <<>>
        /\ (InRange(inp.j) /\ DayElapsed) =>
              /\ Written # <<>> <=>
                     pre.st.day_last_ts - pre.st.day_first_ts >= 12 * 3600
              /\ Written # <<>> =>
                     /\ Len(Written) = 1
                     /\ Written[1] \in g_db.rows
                     /\ Written[1].day_ts = KeyTs(pre.st.daily_ymd)
                     /\ Written[1].rain_in = <<pre.st.rain_daily_in>>
                     /\ Written[1].temp_high_c =
                            (IF pre.st.have_temp THEN <<pre.st.temp_high_c>> ELSE <<>>)
                     /\ Written[1].temp_low_c =
                            (IF pre.st.have_temp THEN <<pre.st.temp_low_c>> ELSE <<>>)
                     /\ Written[1].humidity_high =
                            (IF pre.st.have_hum THEN <<pre.st.hum_high>> ELSE <<>>)
                     /\ Written[1].humidity_low =
                            (IF pre.st.have_hum THEN <<pre.st.hum_low>> ELSE <<>>)

\* C2 witness: a day rollover wrote the row of a day with rain and a temperature.
C2_Witness ==
    /\ hist.n > 0 /\ hist.mono /\ InRange(inp.j) /\ DayElapsed /\ Written # <<>>
    /\ pre.st.have_temp /\ pre.st.rain_daily_in > 0 /\ g_state.rain_daily_in = 0

\* The sum of the inches of the entries i of v with lo <= v[i].ts <= hi.
RECURSIVE SumBetween(_, _, _)
SumBetween(v, lo, hi) ==
    IF v = <<>> THEN 0
    ELSE (IF lo <= v[1].ts /\ v[1].ts <= hi THEN v[1].inches ELSE 0)
         + SumBetween(Tail(v), lo, hi)

\* C3: over in-range, non-decreasing readings with gaps below 5000 mm, daily_in
\* is the sum of the deltas accepted since the last day rollover and hourly_in
\* is the sum of the accepted deltas of the last hour.  (Stated for runs with
\* non-decreasing timestamps.)
C3_DeltaSums ==
    (hist.n > 0 /\ hist.seq_ok /\ hist.mono) =>
        /\ g_state.rain_daily_in =
               SumInches(SubSeq(hist.accepted, hist.day_base + 1, Len(hist.accepted)))
        /\ g_state.rain_hourly_in = SumBetween(hist.accepted, Now - 3600, Now)

\* C4: an ingest of an in-range reading zeroes each calendar accumulator iff
\* its own horizon has elapsed, whatever the other three do, before it adds the
\* delta of the ingest; the day rollover alone restarts the coverage and the
\* extremes; no rollover touches hourly_in or event_in.
C4_RolloverFrame ==
    (hist.n > 0 /\ InRange(inp.j)) =>
        /\ g_state.rain_daily_in =
               (IF DayElapsed THEN 0 ELSE pre.st.rain_daily_in) + DeltaIn(pre.st, inp.j)
        /\ g_state.rain_monthly_in =
               (IF MonthElapsed THEN 0 ELSE pre.st.rain_monthly_in) + DeltaIn(pre.st, inp.j)
        /\ g_state.rain_yearly_in =
               (IF YearElapsed THEN 0 ELSE pre.st.rain_yearly_in) + DeltaIn(pre.st, inp.j)
        /\ g_state.rain_weekly_in =
               (IF WeekElapsed THEN 0 ELSE pre.st.rain_weekly_in) + DeltaIn(pre.st, inp.j)
        /\ hist.fired = {k \in {"day", "month", "year", "week"} :
                             \/ k = "day"   /\ DayElapsed
                             \/ k = "month" /\ MonthElapsed
                             \/ k = "year"  /\ YearElapsed
                             \/ k = "week"  /\ WeekElapsed}
        /\ DeltaIn(pre.st, inp.j) = 0 =>
               /\ g_state.rain_hourly_in = pre.st.rain_hourly_in
               /\ g_state.rain_event_in  = pre.st.rain_event_in
        /\ DayElapsed =>
               /\ g_state.day_first_ts = Now /\ g_state.day_last_ts = Now
               /\ g_state.have_temp => (g_state.temp_high_c = g_state.temp_low_c)
               /\ g_state.have_hum  => (g_state.hum_high = g_state.hum_low)
               /\ g_state.wind_sample_count <= 1
        /\ ~DayElapsed =>
               /\ g_state.day_first_ts =
                      (IF pre.st.day_first_ts = 0 THEN Now ELSE pre.st.day_first_ts)
               /\ pre.st.have_temp =>
                      /\ g_state.have_temp
                      /\ g_state.temp_high_c >= pre.st.temp_high_c
                      /\ g_state.temp_low_c <= pre.st.temp_low_c
               /\ pre.st.have_hum =>
                      /\ g_state.have_hum
                      /\ g_state.hum_high >= pre.st.hum_high
                      /\ g_state.hum_low <= pre.st.hum_low
               /\ pre.st.have_wind =>
                      /\ g_state.have_wind
                      /\ g_state.wind_sample_count >= pre.st.wind_sample_count

\* C4 witness: the four rollovers fired in one ingest, each on an accumulator
\* that held rain.
C4_Witness ==
    /\ hist.n > 0 /\ InRange(inp.j)
    /\ DayElapsed /\ MonthElapsed /\ YearElapsed /\ WeekElapsed
    /\ pre.st.rain_daily_in > 0 /\ pre.st.rain_weekly_in > 0
    /\ pre.st.rain_monthly_in > 0 /\ pre.st.rain_yearly_in > 0
    /\ pre.st.rain_event_in > 0 /\ g_state.rain_event_in = pre.st.rain_event_in

EqualReading == hist.n > 0 /\ InRange(inp.j) /\ Reading = pre.st.last_rain_mm

\* C5 as stated: an ingest whose reading equals last_rain_reading leaves the six
\* accumulators unchanged.
C5_Original == EqualReading => (AccumulatorsUnchanged /\ g_state.deltas = pre.st.deltas)

\* C5 as amended: an ingest whose reading equals last_rain_reading produces no
\* delta: hourly_in, event_in and the delta sequence are unchanged, and each of
\* daily, weekly, monthly and yearly is unchanged unless its own rollover fires in
\* that ingest, which zeroes it.
C5_EqualReading == EqualReading => NoDelta

\* C5 witness: an equal reading, on a day that held rain, in the next day.
C5_Witness ==
    /\ EqualReading /\ pre.st.last_rain_mm # 0
    /\ pre.st.rain_daily_in > 0 /\ pre.st.deltas # <<>> /\ DayElapsed

FirstReading == hist.n > 0 /\ InRange(inp.j) /\ pre.st.last_rain_mm = 0 /\ Reading # 0

\* C6: with last_rain_reading 0, an ingest of a non-zero in-range reading makes
\* it last_rain_reading and adds no delta: the accumulators change only as the
\* rollovers of that ingest change them, the delta sequence not at all.
C6_FirstReadingSeeds == FirstReading => (g_state.last_rain_mm = Reading /\ NoDelta)

\* C6 witness: a first reading in a state that holds rain of earlier readings.
C6_Witness == FirstReading /\ pre.st.rain_yearly_in > 0 /\ pre.st.deltas # <<>>

Rejected == hist.n > 0 /\ ~InRange(inp.j)

\* C7: an ingest without rain_mm, or with a reading outside [0, 20000] mm, takes
\* the telemetry fields of the sample and leaves last_rain_reading, the six
\* accumulators, the delta sequence, last_rain_event_ts and the calendar keys
\* as they were.
C7_RejectedReading ==
    Rejected =>
        /\ inp.j.temperature_C # <<>> => g_state.temperature_C = inp.j.temperature_C[1]
        /\ inp.j.humidity # <<>> => g_state.humidity = inp.j.humidity[1]
        /\ inp.j.wind_avg_m_s # <<>> => g_state.wind_avg_m_s = inp.j.wind_avg_m_s[1]
        /\ inp.j.rain_mm # <<>> => g_state.rain_mm = Reading
        /\ g_state.last_update = Now
        /\ g_state.last_rain_mm = pre.st.last_rain_mm
        /\ AccumulatorsUnchanged
        /\ g_state.deltas = pre.st.deltas
        /\ g_state.last_rain_ts = pre.st.last_rain_ts
        /\ g_state.daily_ymd = pre.st.daily_ymd
        /\ g_state.month_ym = pre.st.month_ym
        /\ g_state.year_y = pre.st.year_y
        /\ g_state.week_start_ymd = pre.st.week_start_ymd

\* C7 witness: a reading above 20000 mm arrives in the next day, with a new
\* temperature, in a state that holds rain.
C7_Witness ==
    /\ Rejected /\ inp.j.rain_mm # <<>> /\ Reading > 20000 * MM
    /\ DayElapsed /\ pre.st.rain_daily_in > 0
    /\ g_state.temperature_C # pre.st.temperature_C

\* The accepted deltas are k deltas of 1 mm, one a minute, the last at the last
\* ingest.
MinuteRain(k) ==
    /\ Len(hist.accepted) = k
    /\ \A i \in 1..k : /\ hist.accepted[i].inches = inches_from_mm(MM)
                       /\ hist.accepted[i].ts = Now - 60 * (k - i)

LastOf(v, n) == SubSeq(v, Len(v) - n + 1, Len(v))

\* C8 as stated: after 61 deltas of 1 mm, one a minute, the oldest delta is no
\* longer in the delta sequence and hourly_in is the sum of the other 60.
C8_Original ==
    MinuteRain(61) =>
        /\ g_state.deltas = LastOf(hist.accepted, 60)
        /\ g_state.rain_hourly_in = 60 * inches_from_mm(MM)

\* C8 as amended: the window keeps a delta of age exactly 3600 s.  After 61
\* deltas of 1 mm, one a minute, none has been evicted and hourly_in is the sum
\* of the 61; from the 62nd on the delta sequence holds the 61 deltas of the most
\* recent 60 minutes, the older ones have been evicted and are not counted.
C8_MinuteWindow ==
    \A k \in 1..(MinuteRun + 1) :
        MinuteRain(k) =>
            /\ k <= 61 => /\ g_state.deltas = hist.accepted
                          /\ g_state.rain_hourly_in = k * inches_from_mm(MM)
            /\ k > 61  => /\ g_state.deltas = LastOf(hist.accepted, 61)
                          /\ g_state.rain_hourly_in = 61 * inches_from_mm(MM)
                          /\ \A i \in 1..Len(g_state.deltas) :
                                 g_state.deltas[i] # hist.accepted[1]

\* C8 witness: the 62nd delta has arrived, 61 minutes after the first.
C8_Witness == MinuteRain(62) /\ Len(g_state.deltas) = 61

NoRepeat(v) == \A a, b \in 1..Len(v) : a # b => v[a] # v[b]

\* C9: no rollover fires twice for the same boundary (the same horizon and the
\* same new key), whatever the timestamps; and an ingest whose day, month and
\* year keys equal the stored ones performs no rollover.
C9_RolloverOnce ==
    /\ NoRepeat(hist.rolled)
    /\ (hist.n > 0 /\ ~DayElapsed /\ ~MonthElapsed /\ ~YearElapsed) => hist.fired = {}

\* C10: the store holds at most one row per day, and a row once written is
\* never written again with other values.
C10_RowImmutable ==
    /\ \A r1, r2 \in g_db.rows : r1.day_ts = r2.day_ts => r1 = r2
    /\ \A a, b \in 1..Len(g_db.journal) :
           g_db.journal[a].day_ts = g_db.journal[b].day_ts
               => g_db.journal[a] = g_db.journal[b]

\* The last ingest reached the extremes tracker (an in-range reading with a prior
\* reading present) and carried a temperature, resp. a humidity.
TempSeen ==
    /\ hist.n > 0 /\ InRange(inp.j) /\ pre.st.last_rain_mm # 0
    /\ inp.j.temperature_C # <<>>

HumSeen ==
    /\ hist.n > 0 /\ InRange(inp.j) /\ pre.st.last_rain_mm # 0
    /\ inp.j.humidity # <<>>

DayRolled == InRange(inp.j) /\ DayElapsed

Snapshot == build_current_json(g_state, g_ws90, clock)

\* A metric without data is null in the snapshot, and a metric with data is not.
NullWithoutData ==
    /\ (Snapshot.daily.temp_high_F = <<>>) = ~g_state.have_temp
    /\ (Snapshot.daily.temp_low_F = <<>>) = ~g_state.have_temp
    /\ (Snapshot.daily.humidity_high = <<>>) = ~g_state.have_hum
    /\ (Snapshot.daily.humidity_low = <<>>) = ~g_state.have_hum
    /\ (Snapshot.daily.wind_mean_mph = <<>>) = ~g_state.have_wind
    /\ (Snapshot.daily.wind_gust_max_mph = <<>>) = ~g_state.have_wind

\* The last ingest carried no temperature (humidity, wind) and has not made the
\* metric one with data.
TempNotCounted ==
    inp.j.temperature_C = <<>> => (g_state.have_temp = (pre.st.have_temp /\ ~DayRolled))

HumNotCounted ==
    inp.j.humidity = <<>> => (g_state.have_hum = (pre.st.have_hum /\ ~DayRolled))

WindNotCounted ==
    (inp.j.wind_avg_m_s = <<>> /\ inp.j.wind_max_m_s = <<>>) =>
        /\ g_state.have_wind = (pre.st.have_wind /\ ~DayRolled)
        /\ ~DayRolled =>
              /\ g_state.wind_mean_m_s = pre.st.wind_mean_m_s
              /\ g_state.wind_max_gust_m_s = pre.st.wind_max_gust_m_s
              /\ g_state.wind_sample_count = pre.st.wind_sample_count

\* C12: a sample that lacks a metric is no observation of it: the have flag of
\* the metric stays as it was (false after a day rollover), so that a metric no
\* sample of the day carried has a false flag, and the snapshot reports null for
\* it; a sample without the wind fields changes neither have_wind, wind_mean,
\* wind_max_gust nor wind_sample_count.
C12_NoDataMetric ==
    hist.n > 0 => (NullWithoutData /\ TempNotCounted /\ HumNotCounted /\ WindNotCounted)

-----------------------------------------------------------------------------
(* History requests *)

\* The last request was a GET of a history url, answered by a history function.
Served == req.method = "GET" /\ req.url \in Urls

\* Argument name is in the query of the last request, whatever its value.
Present(name) == req[name] # <<>>

\* The mode the arguments in the query stand for.
ModeByPresence ==
    IF ~Present("days") /\ ~Present("limit") /\ ~Present("offset") THEN "simple"
    ELSE IF Present("limit") \/ Present("offset") THEN "paged"
    ELSE "time_only"

\* C13: the mode of a history query is decided by which of days, limit and offset
\* are in the query, not by their values: none gives simple, days alone gives
\* time-only, limit or offset gives paged, also for an empty, a non-numeric or an
\* out-of-range value.
C13_ModeByPresence == Served => req.mode = ModeByPresence

\* out["days"] of the reply, the keys it lists and their order.
Listed == resp.days[1]

ListedDays == {Listed[i].day : i \in 1..Len(Listed)}

Ascending == \A i \in 1..(Len(Listed) - 1) : Listed[i].day < Listed[i + 1].day

\* The rows of S a reply shows: the rain reply leaves out the days without a
\* rain value.
Shown(S) == IF req.url = "/api/v2/history/rain" THEN {r \in S : r.rain_in # <<>>} ELSE S

\* The reply lists the days of S, each once, in ascending order of the key.
Lists(S) == Ascending /\ ListedDays = {r.day_ts : r \in Shown(S)}

NoArgs == ~Present("days") /\ ~Present("limit") /\ ~Present("offset")

DaysOnly == Present("days") /\ ~Present("limit") /\ ~Present("offset")

Paging == Present("limit") \/ Present("offset")

\* C14: a history query without arguments returns every stored day, in ascending
\* order of the day key, not filtered by time and not capped, whatever the number
\* and the age of the stored days (the rain query: every day that has a rain
\* value).
C14_SimpleAll == (Served /\ NoArgs) => Lists(g_db.rows)

\* A query without arguments answered with more rows than the largest page.
C14_Witness ==
    /\ Served /\ NoArgs
    /\ req.url = "/api/v2/history/temperature"
    /\ Len(Listed) > MAX_LIMIT
    /\ Len(Listed) = Cardinality(g_db.rows)

\* The stored days not older than days * 86400 seconds at the time of the request.
Since(days) == {r \in g_db.rows : r.day_ts >= req.now - days * 86400}

\* C15: a query with days = d alone returns, for d > 0, exactly the stored days
\* with key >= now - d * 86400, ascending and uncapped, and for d = 0 what the
\* query without arguments returns.
C15_TimeOnly ==
    (Served /\ DaysOnly) =>
        IF req.args[1] > 0 THEN Lists(Since(req.args[1])) ELSE Lists(g_db.rows)

\* days = 7 at midnight: the day that starts exactly 7 days back is the first of
\* the reply, older days are stored.
C15_Witness ==
    /\ Served /\ DaysOnly
    /\ req.days = <<<<"7">>>> /\ req.args[1] = 7
    /\ req.url = "/api/v2/history/humidity"
    /\ Len(Listed) = 7
    /\ Listed[1].day = req.now - 7 * 86400
    /\ Cardinality(g_db.rows) > MAX_LIMIT

\* The position of row r in the ascending sequence of S, from 0.
Rank(r, S) == Cardinality({q \in S : q.day_ts < r.day_ts})

\* The rows of S at positions [offset, offset + limit).
Page(S, limit, offset) == {r \in S : Rank(r, S) >= offset /\ Rank(r, S) < offset + limit}

\* The example: entries at now - 1d and now - 10d, days=7, limit=1, offset=0.
Example ==
    /\ Served
    /\ {r.day_ts : r \in g_db.rows} = {req.now - 86400, req.now - 10 * 86400}
    /\ req.days = <<<<"7">>>> /\ req.limit = <<<<"1">>>> /\ req.offset = <<<<"0">>>>

\* C16: a paged query returns the rows at positions [offset, offset + limit) of
\* the ascending sequence of stored days, filtered by day >= now - days * 86400
\* if and only if days > 0; with entries at now - 1d and now - 10d, days=7,
\* limit=1, offset=0 returns exactly the entry at now - 1d.
C16_Paged ==
    /\ (Served /\ Paging) =>
           Lists(Page(IF req.args[1] > 0 THEN Since(req.args[1]) ELSE g_db.rows,
                      req.args[2], req.args[3]))
    /\ Example => (Len(Listed) = 1 /\ Listed[1].day = req.now - 86400)

C16_Witness == Example /\ req.url = "/api/v2/history/rain" /\ ListedDays = {req.now - 86400}

\* The stored days the statement of the last request selects.
Selection ==
    IF req.mode = "simple" THEN g_db.rows
    ELSE IF req.mode = "time_only"
    THEN (IF req.args[1] > 0 THEN Since(req.args[1]) ELSE g_db.rows)
    ELSE Page(IF req.args[1] > 0 THEN Since(req.args[1]) ELSE g_db.rows,
              req.args[2], req.args[3])

Stored(day) == CHOOSE r \in g_db.rows : r.day_ts = day

\* A reported pair of extremes: both null if one of the stored ones is absent,
\* else the stored values.
Reported(hi, lo, stored_hi, stored_lo) ==
    IF stored_hi = <<>> \/ stored_lo = <<>> THEN hi = <<>> /\ lo = <<>>
    ELSE hi # <<>> /\ lo # <<>>

TemperatureReported(row, r) ==
    /\ Reported(row.temp_high_F, row.temp_low_F, r.temp_high_c, r.temp_low_c)
    /\ row.temp_high_F # <<>> =>
           /\ row.temp_high_F[1] = r.temp_high_c[1] * 9 + 160
           /\ row.temp_low_F[1] = r.temp_low_c[1] * 9 + 160

HumidityReported(row, r) ==
    /\ Reported(row.humidity_high, row.humidity_low, r.humidity_high, r.humidity_low)
    /\ row.humidity_high # <<>> =>
           /\ row.humidity_high = r.humidity_high
           /\ row.humidity_low = r.humidity_low

RainReported(row, r) == r.rain_in = <<row.rain_in>>

RowReported(row, r) ==
    IF req.url = "/api/v2/history/temperature" THEN TemperatureReported(row, r)
    ELSE IF req.url = "/api/v2/history/humidity" THEN HumidityReported(row, r)
    ELSE RainReported(row, r)

\* C17: the rain query leaves out exactly the selected days whose rain value is
\* NULL; the temperature and the humidity query return a row for every selected
\* day, with nulls for a day whose extremes are absent and the stored values
\* otherwise: an absent value is never reported as zero.
C17_NullDays ==
    Served =>
        /\ Lists(Selection)
        /\ \A i \in 1..Len(Listed) : RowReported(Listed[i], Stored(Listed[i].day))

\* A rain reply that leaves out days without a rain value and reports a stored 0.
C17_Witness ==
    /\ Served /\ req.url = "/api/v2/history/rain" /\ req.mode = "simple"
    /\ Len(Listed) < Cardinality(g_db.rows)
    /\ \E r \in g_db.rows : r.rain_in = <<>> /\ r.temp_low_c # <<>> /\ r.day_ts \notin ListedDays
    /\ \E i \in 1..Len(Listed) : Listed[i].rain_in = 0

\* The number a value starts with (white space and a sign before it allowed), <<>>
\* if it starts with none: the values of the requests, one by one.
Numeral(val) ==
    CASE val = <<>> -> <<>>
      [] val = <<"x">> -> <<>>
      [] val = <<"a", "b", "c">> -> <<>>
      [] val = <<"0">> -> <<0>>
      [] val = <<"1">> -> <<1>>
      [] val = <<"2">> -> <<2>>
      [] val = <<"7">> -> <<7>>
      [] val = <<"-", "1">> -> <<-1>>
      [] val = <<"-", "3">> -> <<-3>>
      [] val = <<" ", "2">> -> <<2>>
      [] val = <<"2", "x">> -> <<2>>
      [] val = <<"4", "0", "0">> -> <<400>>
      [] val = <<"9", "9", "9", "9">> -> <<9999>>
      [] val = <<"2", "0", "0", "0", "0", "0", "0">> -> <<2000000>>

\* What an argument of the query is to become: its number, clamped to lo..hi, or
\* the default if it has none.
Clamped(n, default, lo, hi) ==
    IF n = <<>> THEN default
    ELSE IF n[1] < lo THEN lo ELSE IF n[1] > hi THEN hi ELSE n[1]

Parsed(name) ==
    IF name = "days" THEN Clamped(Numeral(req.days[1]), 0, 0, 3650)
    ELSE IF name = "limit" THEN Clamped(Numeral(req.limit[1]), 100, 1, 365)
    ELSE Clamped(Numeral(req.offset[1]), 0, 0, 1000000)

Passed(name) ==
    IF name = "days" THEN req.args[1] ELSE IF name = "limit" THEN req.args[2] ELSE req.args[3]

\* C18: every argument in the query is clamped on parse, days to [0, 3650], limit
\* to [1, 365], offset to [0, 1000000], and one without a number takes its
\* default (0, 100, 0); no value of days, limit or offset gives an error reply.
C18_Clamped ==
    Served =>
        /\ \A name \in {"days", "limit", "offset"} :
               Present(name) => Passed(name) = Parsed(name)
        /\ resp.status = 200 /\ resp.error = <<>>

-----------------------------------------------------------------------------
(* Health after a poll *)

Polled == hist.polls > 0

TransportFailed == poll.f.res # "CURLE_OK"

OkReply == poll.f.res = "CURLE_OK" /\ poll.f.http_code = 200

\* The body of an OK reply is a sample the server can read: it parses and its
\* rain_mm, if there is one, is a number.
Parseable == poll.f.size > 0 /\ poll.f.valid /\ ~rain_throws(poll.f.j)

\* The error the body of a reply names, "" if it names none.
NamedError ==
    IF poll.f.size > 0 /\ poll.f.valid /\ poll.f.error # <<>> /\ poll.f.error[1].is_string
    THEN poll.f.error[1].v ELSE ""

\* C19: after each poll the health is a function of what the poll fetched.  A
\* transport failure: bridge not reachable, stream not healthy, an error code.  An
\* OK reply with a parseable payload: ingested, both flags true, error code and
\* message cleared.  An OK reply with an unusable payload: bridge reachable,
\* stream not healthy.  Any other reply: stream not healthy and an error code
\* that is stale_data, no_data, or neither, as the reply names it.
C19_Health ==
    Polled =>
        /\ g_ws90.last_poll = poll.now
        /\ TransportFailed =>
               /\ ~g_ws90.http_ok /\ ~g_ws90.rtlsdr_ok
               /\ g_ws90.error_code = "curl_error"
               /\ ~poll.ingested
        /\ (OkReply /\ Parseable) =>
               /\ g_ws90.http_ok /\ g_ws90.rtlsdr_ok
               /\ g_ws90.error_code = "" /\ g_ws90.error_msg = ""
               /\ poll.ingested /\ g_state.last_update = poll.now
        /\ (OkReply /\ ~Parseable) =>
               /\ g_ws90.http_ok /\ ~g_ws90.rtlsdr_ok
               /\ g_ws90.error_code \in {"parse_error", "http_200"}
               /\ ~poll.ingested
        /\ (~TransportFailed /\ ~OkReply) =>
               /\ ~g_ws90.rtlsdr_ok
               /\ g_ws90.error_code # ""
               /\ g_ws90.error_code = "stale_data" <=> NamedError = "stale_data"
               /\ g_ws90.error_code = "no_data" <=> NamedError = "no_data"
               /\ ~poll.ingested

\* A poll that fetched garbage after a healthy one.
C19_Witness ==
    /\ Polled /\ OkReply /\ ~Parseable /\ poll.f.size > 0
    /\ poll.before.ws.rtlsdr_ok
    /\ g_ws90.http_ok /\ ~g_ws90.rtlsdr_ok /\ g_ws90.error_code = "parse_error"

-----------------------------------------------------------------------------
(* The lock *)

\* g_state, the table, the snapshot file and the health as they are.
Current == Live(g_state, g_db, g_file, g_ws90)

\* What the last complete iteration of the poller left.
Committed == poll.committed

\* The poller is inside its locked block and has changed something.
Partial == Current # Committed

\* C20: g_state, the health fields, the snapshot file and the table change only
\* while the poller holds g_lock, and the snapshot is built under g_lock: the
\* snapshot a reader gets is the one of the state a complete iteration left,
\* never of a partly applied ingest, and what an iteration leaves is what its
\* block computes from the state at its start, rollover, flush and delta with
\* nothing in between.
C20_Locked ==
    /\ Partial => (g_lock = "poller" /\ pc.poller \notin {"sleep", "fetched"})
    /\ pc.http \in {"reading", "built"} => (g_lock = "http" /\ ~Partial)
    /\ pc.http = "built" =>
           resp.current = <<build_current_json(Committed.st, Committed.ws, req.now)>>
    /\ (pc.poller \in {"sleep", "fetched"} /\ hist.polls > 0) =>
           /\ g_state = poller_locked(poll.before.st, poll.before.db, poll.before.file,
                                      poll.now, poll.f).st
           /\ g_db = poller_locked(poll.before.st, poll.before.db, poll.before.file,
                                   poll.now, poll.f).db
           /\ g_file = poller_locked(poll.before.st, poll.before.db, poll.before.file,
                                     poll.now, poll.f).file
           /\ g_ws90 = poller_locked(poll.before.st, poll.before.db, poll.before.file,
                                     poll.now, poll.f).ws

\* The poller is past the flush and the reset of a day rollover, the delta not
\* yet added, and a snapshot request waits for the lock.
C20_Witness ==
    /\ pc.poller = "rolled"
    /\ g_db # Committed.db
    /\ g_state.daily_ymd # Committed.st.daily_ymd
    /\ g_state.rain_daily_in = 0 /\ Committed.st.rain_daily_in > 0
    /\ g_lock = "poller"
    /\ pc.http = "accepted" /\ req.url = "/api/v2/weather"

\* The last ingest carried an accepted delta.
Accepted == hist.n > 0 /\ InRange(inp.j) /\ DeltaIn(pre.st, inp.j) > 0

\* C29: the rollover check runs before the accumulation.  When the first ingest
\* of a new day (month, year, week) carries an accepted delta, the daily
\* (monthly, yearly, weekly) accumulator after the ingest is exactly that delta,
\* and the row the day rollover wrote holds the rain of the day before the
\* delta.
C29_RolloverFirst ==
    Accepted =>
        /\ DayElapsed =>
               /\ g_state.rain_daily_in = DeltaIn(pre.st, inp.j)
               /\ \A i \in 1..Len(Written) : Written[i].rain_in = <<pre.st.rain_daily_in>>
        /\ MonthElapsed => g_state.rain_monthly_in = DeltaIn(pre.st, inp.j)
        /\ YearElapsed => g_state.rain_yearly_in = DeltaIn(pre.st, inp.j)
        /\ WeekElapsed => g_state.rain_weekly_in = DeltaIn(pre.st, inp.j)

\* The first ingest of a new day, month, year and week carries an accepted
\* delta and flushes a day that had rain.
C29_Witness ==
    /\ Accepted
    /\ DayElapsed /\ MonthElapsed /\ YearElapsed /\ WeekElapsed
    /\ Len(Written) = 1
    /\ pre.st.rain_daily_in > 0
    /\ g_state.rain_daily_in = DeltaIn(pre.st, inp.j)

\* The last ingest had a usable reading and a prior reading to compare it with.
PriorReading == hist.n > 0 /\ InRange(inp.j) /\ pre.st.last_rain_mm # 0

Delta == Reading - pre.st.last_rain_mm

\* What the rule adds for the last ingest, in inches.
Added == IF Delta > 1 /\ Delta < 5000 * MM THEN Delta * 5 ELSE 0

\* C30: with a prior reading present, the delta reading - last_rain_reading is
\* accumulated exactly when 0.0001 mm < delta < 5000 mm, and then the same
\* amount in inches is added to the daily, weekly, monthly and yearly
\* accumulators (after the rollovers of that ingest); in every case, a negative
\* delta and a jump of 5000 mm or more included, last_rain_reading becomes the
\* new reading.
C30_DeltaRule ==
    PriorReading =>
        /\ g_state.last_rain_mm = Reading
        /\ g_state.rain_daily_in =
               (IF DayElapsed THEN 0 ELSE pre.st.rain_daily_in) + Added
        /\ g_state.rain_weekly_in =
               (IF WeekElapsed THEN 0 ELSE pre.st.rain_weekly_in) + Added
        /\ g_state.rain_monthly_in =
               (IF MonthElapsed THEN 0 ELSE pre.st.rain_monthly_in) + Added
        /\ g_state.rain_yearly_in =
               (IF YearElapsed THEN 0 ELSE pre.st.rain_yearly_in) + Added

\* A jump of exactly 5000 mm after an accepted delta: nothing is added and the
\* reading is the new reference.
C30_Witness ==
    /\ PriorReading
    /\ Delta = 5000 * MM
    /\ pre.st.rain_daily_in > 0
    /\ g_state.rain_daily_in = pre.st.rain_daily_in
    /\ g_state.last_rain_mm = Reading

\* The last request was for the snapshot and was answered with one.
SnapshotServed == req.url = "/api/v2/weather" /\ resp.current # <<>>

Max0(x) == IF x > 0 THEN x ELSE 0

\* C26: in every snapshot, total_in = historical_total_in
\* + max(0, yearly_in - historical_yearly_in).
C26_TotalIn ==
    SnapshotServed =>
        resp.current[1].rain.total_in =
            HISTORICAL_TOTAL_IN + Max0(resp.current[1].rain.yearly_in - HISTORICAL_YEARLY_IN)

\* A snapshot of a year with more rain than the historical year.
C26_Witness ==
    /\ SnapshotServed
    /\ resp.current[1].rain.yearly_in > HISTORICAL_YEARLY_IN
    /\ resp.current[1].rain.total_in > HISTORICAL_TOTAL_IN

\* The time of the last sample ingested before the request, or of the start of
\* the process when none was ingested yet.
LastIngest == req.ingest

\* C27: in every snapshot, age_sec is the time since the last ingested sample
\* and stale is true exactly when age_sec > 60: true when more than 60 s have
\* passed without an ingested sample, false within 60 s of one.
C27_Stale ==
    SnapshotServed =>
        /\ resp.current[1].ws90_status.age_sec = req.now - LastIngest
        /\ resp.current[1].ws90_status.stale = (req.now - LastIngest > 60)

\* A snapshot 61 s or more after the last ingested sample, polls having failed
\* since.
C27_Witness ==
    /\ SnapshotServed
    /\ hist.n > 0
    /\ ~poll.ingested
    /\ req.now = clock
    /\ LastIngest = inp.now
    /\ req.now - LastIngest > 60
    /\ resp.current[1].ws90_status.stale

\* The day the last ingest left behind had samples over 12 h or more.
Covered ==
    /\ pre.st.day_first_ts # 0
    /\ pre.st.day_last_ts - pre.st.day_first_ts >= 12 * 3600

\* C25: when the store failed to open, every history query (temperature,
\* humidity, rain, in every mode) is answered with the empty list, and a day
\* rollover resets the daily state and writes nothing, the ingest going on to
\* its end.
C25_ClosedStore ==
    ~g_db.open =>
        /\ Served => (resp.status = 200 /\ resp.error = <<>> /\ resp.days = <<<<>>>>)
        /\ (hist.n > 0 /\ InRange(inp.j) /\ DayElapsed) =>
               /\ g_db = pre.db
               /\ g_state.daily_ymd = ymd_from_time(Now)
               /\ g_state.rain_daily_in = DeltaIn(pre.st, inp.j)
               /\ g_state.day_first_ts = Now
               /\ g_state.last_update = Now
               /\ g_state.last_rain_mm = Reading

\* The store is not open, a day with rain and 12 h of samples has rolled over,
\* and a paged history request was answered after that.
C25_Witness ==
    /\ ~g_db.open
    /\ g_db.rows # {}
    /\ "day" \in hist.fired
    /\ Covered
    /\ pre.st.rain_daily_in > 0
    /\ g_state.rain_daily_in = 0
    /\ Served /\ req.mode = "paged" /\ req.now = clock
    /\ resp.days = <<<<>>>>

\* The last step was a start of the process; it read poll.committed.file.
Restarted == hist.restarts > 0 /\ poll.f.res = ""

\* The state the process had when it ended.
Crashed == hist.crashed[1]

\* The file the last start read was there, was JSON and held no member of
\* another type than expected.
FileUsable ==
    /\ poll.committed.file # <<>>
    /\ poll.committed.file[1].parses
    /\ poll.committed.file[1].wrong = {}

\* The aggregation state: what an ingest accumulates into and decides by.
Aggregation(st) ==
    [last_rain_mm |-> st.last_rain_mm,
     rain_daily_in |-> st.rain_daily_in,   rain_weekly_in |-> st.rain_weekly_in,
     rain_monthly_in |-> st.rain_monthly_in, rain_yearly_in |-> st.rain_yearly_in,
     rain_hourly_in |-> st.rain_hourly_in, rain_event_in |-> st.rain_event_in,
     deltas |-> st.deltas, last_rain_ts |-> st.last_rain_ts,
     daily_ymd |-> st.daily_ymd, month_ym |-> st.month_ym, year_y |-> st.year_y,
     week_start_ymd |-> st.week_start_ymd,
     have_temp |-> st.have_temp, temp_high_c |-> st.temp_high_c, temp_low_c |-> st.temp_low_c,
     have_hum |-> st.have_hum, hum_high |-> st.hum_high, hum_low |-> st.hum_low,
     day_first_ts |-> st.day_first_ts, day_last_ts |-> st.day_last_ts]

\* C23: restoring the persisted snapshot reconstructs the aggregation state as
\* it was after the last accepted ingest (last reading, the six accumulators,
\* the hourly delta sequence, the time of the last rain, the calendar keys, the
\* extremes, the coverage timestamps), and the first sample ingested after the
\* restart leaves the aggregation state it would have left without the restart.
C23_Restored ==
    /\ (Restarted /\ FileUsable) => Aggregation(g_state) = Aggregation(Crashed)
    /\ (hist.restarts > 0 /\ hist.n = hist.boot_n + 1 /\ poll.before.file # <<>>
        /\ poll.before.file[1].parses /\ poll.before.file[1].wrong = {}) =>
           Aggregation(g_state) =
               Aggregation(process_ws90_json_locked(Crashed, pre.db, poll.before.file,
                                                    inp.now, inp.j).st)

\* C24: when the snapshot file is absent, is not JSON, or is JSON with a member
\* of the wrong type, the loaded state is exactly the fresh defaults: the
\* calendar keys of today, zeroed accumulators, historical_seeded true, and
\* nothing of what was read before the failure.
C24_Defaults ==
    (Restarted /\ ~FileUsable) =>
        /\ g_state.daily_ymd = ymd_from_time(clock)
        /\ g_state.week_start_ymd = ymd_from_time(clock)
        /\ g_state.month_ym = ym_from_time(clock)
        /\ g_state.year_y = y_from_time(clock)
        /\ g_state.last_update = clock
        /\ g_state.historical_seeded
        /\ [g_state EXCEPT !.daily_ymd = 0, !.week_start_ymd = 0, !.month_ym = 0,
                           !.year_y = 0, !.last_update = 0, !.historical_seeded = FALSE]
               = WeatherStateV2

\* The process starts on a file in which the last member read has the wrong
\* type, written on another day by a process that had counted rain.
C24_Witness ==
    /\ Restarted
    /\ poll.committed.file # <<>>
    /\ poll.committed.file[1].wrong = {"day_last_ts"}
    /\ poll.committed.file[1].j.rain_daily_in > 0
    /\ poll.committed.file[1].j.daily_ymd # ymd_from_time(clock)
    /\ g_state.rain_daily_in = 0
    /\ g_state.daily_ymd = ymd_from_time(clock)

\* C28: a stop can be requested, and after a stop request the poller performs
\* at most the poll of the current cycle and terminates: when the poller has
\* ended, it ended between two cycles, the lock released and no iteration left
\* half done.
C28_StopBetweenCycles ==
    pc.poller = "killed" => (g_lock # "poller" /\ ~Partial)

\* The row a day rollover has written since the history request began.
Flushed == {g_db.journal[i] : i \in (req.journal + 1)..Len(g_db.journal)}

\* The list the request would get from the table holding rows.
ListOf(rows) ==
    route(req, g_state, g_ws90, Table(rows), req.now).days

\* C21: a history query never takes the live-state lock: it can begin, go on
\* and end whatever the state of the lock, the poller holding it included.  A
\* query that runs while a day rollover writes its row lists whole rows only,
\* and at its end the list is that of the table with the new row or that of the
\* table without it.
C21_HistoryUnlocked ==
    /\ pc.http = "stepping" => g_lock # "http"
    /\ (pc.http = "idle" /\ hist.requests < HistRequests) =>
           ENABLED (\E r \in SimpleRequests : HistoryPrepare(r))
    /\ pc.http = "stepping" => ENABLED (HistoryStep \/ HistoryDone)
    /\ (Served /\ resp.days # <<>>) =>
           \A i \in 1..Len(resp.days[1]) :
               \E r \in g_db.rows : <<resp.days[1][i]>> = days_entry(req.url, r)
    /\ (Served /\ resp.status = 200) =>
           \/ resp.days = ListOf(g_db.rows)
           \/ resp.days = ListOf(g_db.rows \ Flushed)

\* A history request began before the day rollover wrote its row, ended after
\* it while the poller still held the lock, and lists the new row.
C21_Witness ==
    /\ Served /\ resp.status = 200
    /\ pc.http = "idle"
    /\ g_lock = "poller"
    /\ Flushed # {}
    /\ resp.days = ListOf(g_db.rows)
    /\ resp.days # ListOf(g_db.rows \ Flushed)

\* C22: whatever a poll brings (a transport failure, a reply that is not OK, a
\* payload that cannot be used, a snapshot file or a store that cannot be
\* written), the poller comes back to the head of its loop and polls again: each
\* poll of the run is followed by the next.  The lock is not held while the
\* poller sleeps or fetches, so a snapshot request that has come in is answered.
C22_PollerLives ==
    /\ [](pc.poller \in {"sleep", "fetched"} => g_lock # "poller")
    /\ \A k \in 0..(LivePolls - 1) : (hist.polls = k) ~> (hist.polls = k + 1)
    /\ (pc.http = "accepted") ~> (pc.http = "idle" /\ resp.status = 200)

\* The poll after a transport failure is over, the one before it having given
\* up the lock; the snapshot file is not the one save_state would have written.
C22_Witness ==
    /\ hist.polls = 2
    /\ pc.poller = "sleep"
    /\ g_lock = ""
    /\ poll.before.ws.error_code = "curl_error"
    /\ poll.ingested
    /\ g_file # save_state(g_state)

\* The event an accepted delta at time now goes to: the running one, or a new
\* one when there was none or more than 30 minutes have passed since the last
\* accepted delta.
EventOpen == pre.st.last_rain_ts # 0 /\ Now - pre.st.last_rain_ts <= 30 * 60

\* C31: on an accepted delta, event_in becomes the delta if there was no prior
\* rain event or more than 30 minutes have passed since last_rain_ts, and the
\* running event_in plus the delta otherwise; in both cases last_rain_ts becomes
\* the time of the ingest.  Two accepted deltas at most 30 minutes apart are
\* both in event_in.
C31_EventAccounting ==
    Accepted =>
        /\ g_state.last_rain_ts = Now
        /\ g_state.rain_event_in =
               (IF EventOpen THEN pre.st.rain_event_in ELSE 0) + DeltaIn(pre.st, inp.j)
        /\ LET n == Len(hist.accepted)
           IN  (n >= 2 /\ hist.accepted[n].ts - hist.accepted[n - 1].ts \in 0..(30 * 60)) =>
                   g_state.rain_event_in >=
                       hist.accepted[n - 1].inches + hist.accepted[n].inches

\* Two accepted deltas exactly 30 minutes apart make one event.
C31_Witness ==
    /\ Accepted
    /\ Len(hist.accepted) = 2
    /\ Now - pre.st.last_rain_ts = 30 * 60
    /\ g_state.rain_event_in = hist.accepted[1].inches + hist.accepted[2].inches
    /\ g_state.last_rain_ts = Now

\* The instant of the local midnight that starts the day a yyyymmdd key encodes.
LocalMidnight(ymd) == IF is_dst(KeyTs(ymd) - 3600) THEN KeyTs(ymd) - 3600 ELSE KeyTs(ymd)

\* At least 7 days lie between the local midnight of the week start and the
\* local midnight of the day of the last ingest.
SevenDays ==
    LocalMidnight(ymd_from_time(Now)) - LocalMidnight(pre.st.week_start_ymd) >= 7 * DAY_SEC

\* C32: the week rollover fires on an ingest if and only if at least 7 days
\* have elapsed between the local midnight of the day week_start_ymd encodes and
\* the local midnight of the day of the ingest; when it fires the weekly
\* accumulator restarts from 0 (it holds the delta of that ingest alone) and
\* week_start_ymd becomes the day of the ingest, and otherwise the accumulator
\* is not reset and the key is unchanged.
C32_WeekRollover ==
    (hist.n > 0 /\ InRange(inp.j)) =>
        /\ ("week" \in hist.fired) <=> SevenDays
        /\ SevenDays =>
               /\ g_state.rain_weekly_in = DeltaIn(pre.st, inp.j)
               /\ g_state.week_start_ymd = ymd_from_time(Now)
        /\ ~SevenDays =>
               /\ g_state.rain_weekly_in = pre.st.rain_weekly_in + DeltaIn(pre.st, inp.j)
               /\ g_state.week_start_ymd = pre.st.week_start_ymd

\* The last ingest carried an in-range rain reading and a temperature
\* (a humidity).
TempObserved == hist.n > 0 /\ InRange(inp.j) /\ inp.j.temperature_C # <<>>
HumObserved == hist.n > 0 /\ InRange(inp.j) /\ inp.j.humidity # <<>>

\* C33: every ingest that carries an in-range rain reading and a temperature
\* (a humidity) counts for the daily extremes: after it have_temp (have_hum) is
\* true and the sample lies between the low and the high.  The ingest that seeds
\* last_rain_mm and the ingests made while the rain counter reads 0 are among
\* them.
C33_EveryObservation ==
    /\ TempObserved =>
           /\ g_state.have_temp
           /\ g_state.temp_low_c <= inp.j.temperature_C[1]
           /\ inp.j.temperature_C[1] <= g_state.temp_high_c
    /\ HumObserved =>
           /\ g_state.have_hum
           /\ g_state.hum_low <= inp.j.humidity[1]
           /\ inp.j.humidity[1] <= g_state.hum_high

\* The last poll ended classified as parse_error.
ParseError == Polled /\ g_ws90.last_poll = poll.now /\ g_ws90.error_code = "parse_error"

\* C34: when a poll ends classified as parse_error, the state is exactly as it
\* was before the poll.
C34_ParseErrorLeavesState == ParseError => g_state = poll.before.st

\* The process was killed after the poller had written the record of the day
\* that ended and before it saved the snapshot: the store holds the record, the
\* file the day before the rollover.
KilledAfterFlush ==
    /\ hist.restarts = 1
    /\ Len(pre.db.journal) = 1
    /\ pre.file # <<>>
    /\ pre.file[1].j.daily_ymd = ymd_from_time(pre.db.journal[1].day_ts)

FirstWritten == pre.db.journal[1]

\* The restarted process has rolled the day of the snapshot over.
Replayed == g_state.daily_ymd # pre.file[1].j.daily_ymd

\* C35: if the process stops after the daily record of an elapsed day was
\* written and before the snapshot was saved, the first ingest after the restart
\* repeats the day rollover from the restored snapshot and writes the same row
\* again: the store holds exactly one row for that day, equal to the one first
\* written, and the restarted process rolls the day over exactly once.
C35_ReplayedFlush ==
    KilledAfterFlush =>
        /\ {r \in g_db.rows : r.day_ts = FirstWritten.day_ts} = {FirstWritten}
        /\ \A i \in 1..Len(g_db.journal) : g_db.journal[i] = FirstWritten
        /\ Len(g_db.journal) <= 2
        /\ Replayed => Len(g_db.journal) = 2

\* The record was written twice, by the killed process and by the restarted one,
\* and the restarted process has counted rain into the new day.
C35_Witness ==
    /\ KilledAfterFlush
    /\ Replayed
    /\ Len(g_db.journal) = 2
    /\ FirstWritten.rain_in # <<0>>
    /\ FirstWritten.temp_high_c # <<>>
    /\ g_state.rain_daily_in > 0
    /\ pc.poller = "sleep"

\* C36: over a run of ingests with non-decreasing timestamps, the total_in the
\* snapshot reports never decreases, a year rollover included, and every
\* accepted rain delta increases it.
C36_LifetimeTotal ==
    (hist.n > 0 /\ hist.mono) =>
        /\ rain_json(g_state).total_in >= rain_json(pre.st).total_in
        /\ Accepted => rain_json(g_state).total_in > rain_json(pre.st).total_in

(***************************************************************************)
(* The bridge reads the device stream (ws90_api.cpp).                      *)
(***************************************************************************)
\* What the members of an object say: its "model" and its "id", <<>> when the object
\* has no such member.
Members ==
    [ws90_1 |-> [model |-> <<"Fineoffset-WS90">>, id |-> <<1>>],
     ws90_2 |-> [model |-> <<"Fineoffset-WS90">>, id |-> <<2>>],
     ws90   |-> [model |-> <<"Fineoffset-WS90">>, id |-> <<>>],
     other  |-> [model |-> <<"Acurite-Tower">>, id |-> <<1>>],
     none   |-> [model |-> <<>>, id |-> <<>>]]

is_space(c) == c = "n"
without_space(text) == SelectSeq(text, LAMBDA c : ~is_space(c))

\* json::parse(obj): the value when the text is one JSON value with white space
\* around it, and a parse_error otherwise.
json_parse(obj) ==
    LET s == without_space(obj) IN
    IF Len(s) = 3 /\ s[1] = "{" /\ s[3] = "}" /\ s[2] \in DOMAIN Members
    THEN [ok |-> TRUE, model |-> Members[s[2]].model, id |-> Members[s[2]].id]
    ELSE IF s = <<"{", "}">>
    THEN [ok |-> TRUE, model |-> <<>>, id |-> <<>>]
    ELSE [ok |-> FALSE, model |-> <<>>, id |-> <<>>]

\* The conditions under which the try block reaches latest_json = obj.
is_ws90(j, filter_id) ==
    /\ j.model = <<"Fineoffset-WS90">>
    /\ filter_id # <<>> => j.id = filter_id

\* buf.find('{', start): the index (from 1) of the first '{' after the first start
\* characters, 0 for npos.
find_open(buf, start) ==
    LET at == {i \in start + 1 .. Len(buf) : buf[i] = "{"} IN
    IF at = {} THEN 0 ELSE CHOOSE i \in at : \A k \in at : i <= k

depth_after(depth, c) == depth + (IF c = "{" THEN 1 ELSE 0) - (IF c = "}" THEN 1 ELSE 0)

\* The for loop over buf from index i with the depth reached before it, for the
\* object that opens at open.  The continue statements of the try block go on to
\* the next i of this loop.
RECURSIVE for_loop(_, _, _, _, _)
for_loop(a, open, i, depth, now) ==
    IF i > Len(a.buf) THEN [valid |-> FALSE, start |-> 0, a |-> a]
    ELSE
    LET d   == depth_after(depth, a.buf[i])
        obj == SubSeq(a.buf, open, i)
        j   == json_parse(obj) IN
    IF d # 0 THEN for_loop(a, open, i + 1, d, now)
    ELSE IF j.ok /\ ~is_ws90(j, a.filter_id) THEN for_loop(a, open, i + 1, d, now)
    ELSE [valid |-> TRUE, start |-> i,
          a |-> IF j.ok
                THEN [a EXCEPT !.latest_json = obj, !.have_json = TRUE, !.last_update = now]
                ELSE a]

\* The while loop, entered with the first start characters of buf consumed.
RECURSIVE while_loop(_, _, _)
while_loop(a, start, now) ==
    LET open == find_open(a.buf, start)
        r    == for_loop(a, open, open, 0, now) IN
    IF open = 0 THEN [start |-> start, a |-> a]
    ELSE IF ~r.valid THEN [start |-> start, a |-> a]
    ELSE while_loop(r.a, r.start, now)

appended(buf, data) ==
    IF Len(buf \o data) > MAX_JSON_SIZE * 4
    THEN SubSeq(buf \o data, Len(buf \o data) - MAX_JSON_SIZE + 1, Len(buf \o data))
    ELSE buf \o data

trimmed(buf, start) ==
    IF start > 0 /\ start < Len(buf) THEN SubSeq(buf, start + 1, Len(buf)) ELSE buf

process_fifo_bytes(a, data, now) ==
    LET r == while_loop([a EXCEPT !.buf = appended(a.buf, data)], 0, now) IN
    [r.a EXCEPT !.buf = trimmed(r.a.buf, r.start)]

data_is_stale(a, now) == ~a.have_json \/ now - a.last_update > STALE_SECONDS

\* handle_http for GET /ws90: the status code and the body.
handle_http(a, now) ==
    IF ~a.have_json THEN [code |-> 503, error |-> "no_data", body |-> <<>>]
    ELSE IF data_is_stale(a, now) THEN [code |-> 503, error |-> "stale_data", body |-> <<>>]
    ELSE [code |-> 200, error |-> "", body |-> a.latest_json]

\* The lines rtl_433 writes: WS90 objects of two stations, an object of another
\* model, an object without a model, a malformed object, text that is no object,
\* and a line cut short.
FifoLines ==
    {<<"{", "ws90_1", "}", "n">>, <<"{", "ws90_2", "}", "n">>, <<"{", "other", "}", "n">>,
     <<"{", "none", "}", "n">>, <<"{", "x", "}", "n">>, <<"x", "n">>, <<"{", "ws90_1", "n">>}
FifoFilters == {<<1>>}
FifoWrites == 3

\* rtl_433 writes a line to the FIFO.
Rtl433Writes(line) ==
    /\ Len(fifo.lines) < FifoWrites
    /\ fifo' = [fifo EXCEPT !.pipe = @ \o line, !.lines = Append(@, line)]
    /\ UNCHANGED <<g_state, g_db, g_file, clock, g_ws90, g_lock, pc, req, resp, pre, inp, poll,
                   hist, ws90_api>>

\* read_fifo: read(fd, tmp, sizeof(tmp)) returns the first n bytes of the FIFO.
ReadFifo(n) ==
    /\ n <= Len(fifo.pipe)
    /\ n <= MAX_FIFO_CHUNK
    /\ ws90_api' = process_fifo_bytes(ws90_api, SubSeq(fifo.pipe, 1, n), clock)
    /\ fifo' = [fifo EXCEPT !.pipe = SubSeq(@, n + 1, Len(@)), !.nread = @ + n]
    /\ UNCHANGED <<g_state, g_db, g_file, clock, g_ws90, g_lock, pc, req, resp, pre, inp, poll,
                   hist>>

\* main started with --id: the filter id is set before the first read.
Main(id) ==
    /\ fifo = fifo_empty
    /\ ws90_api = ws90_api_defaults(<<>>)
    /\ ws90_api' = ws90_api_defaults(id)
    /\ UNCHANGED <<g_state, g_db, g_file, clock, g_ws90, g_lock, pc, req, resp, pre, inp, poll,
                   hist, fifo>>

InitFifo == Boot(0)

NextFifo ==
    \/ \E id \in FifoFilters : Main(id)
    \/ \E line \in FifoLines : Rtl433Writes(line)
    \/ \E n \in 1 .. 4 * FifoWrites : ReadFifo(n)

SpecFifo == InitFifo /\ [][NextFifo]_vars

\* The lines written so far whose closing brace the bridge has read and that are one
\* complete WS90 object of the station the bridge listens to.
RECURSIVE LineEnd(_)
LineEnd(k) == IF k = 0 THEN 0 ELSE LineEnd(k - 1) + Len(fifo.lines[k])

ReadObjects ==
    {k \in 1 .. Len(fifo.lines) :
        /\ json_parse(fifo.lines[k]).ok
        /\ is_ws90(json_parse(fifo.lines[k]), ws90_api.filter_id)
        /\ LineEnd(k) - 1 <= fifo.nread}

LastRead == CHOOSE k \in ReadObjects : \A i \in ReadObjects : i <= k

\* C37: once the bridge has read a complete WS90 object of its station from the
\* stream, the sample it serves is the last such object read, whatever lines came
\* before it and however the reads split the stream.
C37_LatestSample ==
    ReadObjects # {} =>
        /\ handle_http(ws90_api, clock).code = 200
        /\ without_space(handle_http(ws90_api, clock).body)
               = without_space(fifo.lines[LastRead])

\* C38: after every completed poll a healthy stream implies a reachable bridge, the
\* error code is empty exactly when both flags are true, and the stream is healthy
\* only when the poll ingested its sample.
C38_HealthFlags ==
    Polled =>
        /\ g_ws90.rtlsdr_ok => g_ws90.http_ok
        /\ g_ws90.error_code = "" <=> (g_ws90.http_ok /\ g_ws90.rtlsdr_ok)
        /\ g_ws90.rtlsdr_ok => poll.ingested

\* A reply that is no 200 and names no error, after a poll that was ingested.
C38_Witness ==
    /\ hist.polls > 1
    /\ poll.before.ws.rtlsdr_ok
    /\ ~TransportFailed /\ ~OkReply /\ NamedError = ""
    /\ g_ws90.http_ok /\ ~g_ws90.rtlsdr_ok

\* C39: from the freshly initialized state on, after any sequence of ingests the
\* daily total is at most the weekly and the monthly total, and the monthly total
\* at most the yearly total.
C39_HorizonOrder ==
    /\ g_state.rain_daily_in <= g_state.rain_weekly_in
    /\ g_state.rain_daily_in <= g_state.rain_monthly_in
    /\ g_state.rain_monthly_in <= g_state.rain_yearly_in

\* The last ingest flushed a record: the row the store's journal ends with.
DayFlushed == hist.n > 0 /\ Len(g_db.journal) = Len(pre.db.journal) + 1
FlushedRow == g_db.journal[Len(g_db.journal)]

\* C40: from the freshly initialized state on, after every ingest with an in-range
\* rain reading day_first_ts and day_last_ts lie in the local day daily_ymd names;
\* the record a day rollover flushes is keyed by the local midnight that starts the
\* day in which its coverage was observed, and its coverage is less than 24 h.
C40_CoverageInDay ==
    /\ (hist.n > 0 /\ InRange(inp.j)) =>
           /\ ymd_from_time(g_state.day_first_ts) = g_state.daily_ymd
           /\ ymd_from_time(g_state.day_last_ts) = g_state.daily_ymd
    /\ DayFlushed =>
           /\ FlushedRow.day_ts = LocalMidnight(pre.st.daily_ymd)
           /\ ymd_from_time(pre.st.day_first_ts) = pre.st.daily_ymd
           /\ ymd_from_time(pre.st.day_last_ts) = pre.st.daily_ymd
           /\ pre.st.day_last_ts - pre.st.day_first_ts < DAY_SEC

=============================================================================
